---- MODULE Spec2Model ----
(***************************************************************************)
(* A model of the data-transcoding core of notion-cli: the identifier      *)
(* resolver (internal/util/url.go), the property codec (cmd/page.go) and   *)
(* the filter compiler (cmd/db.go).                                        *)
(*                                                                         *)
(* One process invocation runs one operation on its arguments and exits,   *)
(* so a behaviour is: Init picks the operation and its arguments, one      *)
(* action applies the operation and stores what it returned.               *)
(*                                                                         *)
(* Go strings are sequences of one-character strings.  Type tags and map   *)
(* keys that the code only ever compares against literals are TLA+ strings.*)
(***************************************************************************)
EXTENDS Integers, Sequences, FiniteSets, TLC

VARIABLES pc, cmd, arg, result

vars == <<pc, cmd, arg, result>>

(***************************************************************************)
(* Bounds of the model.                                                    *)
(***************************************************************************)
MaxSlugLen == 2
MaxValLen == 2
MaxFilters == 3
MaxLines == 3
MaxPages == 3
MaxItems == 2
MaxArgs == 2
MaxCommands == 3
MaxRequests == 5

(***************************************************************************)
(* package strings                                                         *)
(***************************************************************************)
\* unicode.IsSpace restricted to the ASCII range ('\v' has no TLA+ escape).
IsSpace(c) == c \in {" ", "\t", "\n", "\r", "\f"}

TrimSpace(s) ==
    LET keep == {i \in 1..Len(s) : ~IsSpace(s[i])}
    IN  IF keep = {} THEN <<>>
        ELSE LET lo == CHOOSE i \in keep : \A j \in keep : i <= j
                 hi == CHOOSE i \in keep : \A j \in keep : j <= i
             IN  SubSeq(s, lo, hi)

HasPrefixAt(s, i, sub) ==
    /\ i >= 1
    /\ i + Len(sub) - 1 <= Len(s)
    /\ \A j \in 1..Len(sub) : s[i + j - 1] = sub[j]

\* strings.Index: the 0-based index of the first occurrence, or -1.
Index(s, sub) ==
    LET at == {i \in 1..(Len(s) + 1) : HasPrefixAt(s, i, sub)}
    IN  IF at = {} THEN -1
        ELSE (CHOOSE i \in at : \A j \in at : i <= j) - 1

Contains(s, sub) == Index(s, sub) >= 0

\* strings.ReplaceAll(s, old, "") for a one-character old.
RemoveAll(s, old) ==
    LET keep(c) == c # old IN SelectSeq(s, keep)

\* s[lo:hi] of Go, with 0-based bounds.
Slice(s, lo, hi) == SubSeq(s, lo + 1, hi)

(***************************************************************************)
(* internal/util/url.go                                                    *)
(***************************************************************************)
HexLower == {"0", "1", "2", "3", "4", "5", "6", "7", "8", "9",
             "a", "b", "c", "d", "e", "f"}
HexOrDash == HexLower \cup {"-"}

\* n characters of class cls starting at the 1-based position i.
RunAt(s, i, n, cls) ==
    /\ i + n - 1 <= Len(s)
    /\ \A j \in 0..(n - 1) : s[i + j] \in cls

HostSo == <<"n", "o", "t", "i", "o", "n", ".", "s", "o">>
HostSite == <<"n", "o", "t", "i", "o", "n", ".", "s", "i", "t", "e">>

\* The capture group of notionURLRe when the match starts at position p:
\* the host literal, '/', a lazy run of non-newline characters, then 32
\* characters of [a-f0-9] or, failing that, 36 of [a-f0-9-].  <<>> when
\* there is no match at p.
notionURLReAt(s, p) ==
    LET host == IF HasPrefixAt(s, p, HostSo \o <<"/">>) THEN Len(HostSo) + 1
                ELSE IF HasPrefixAt(s, p, HostSite \o <<"/">>) THEN Len(HostSite) + 1
                ELSE 0
        q    == p + host
        ok(i) == /\ \A j \in q..(i - 1) : s[j] # "\n"
                 /\ RunAt(s, i, 32, HexLower) \/ RunAt(s, i, 36, HexOrDash)
        at   == {i \in q..Len(s) : ok(i)}
    IN  IF host = 0 \/ at = {} THEN <<>>
        ELSE LET i == CHOOSE i \in at : \A j \in at : i <= j
             IN  IF RunAt(s, i, 32, HexLower) THEN SubSeq(s, i, i + 31)
                 ELSE SubSeq(s, i, i + 35)

\* notionURLRe.FindStringSubmatch(input)[1] of the leftmost match, <<>>
\* when the expression does not match.
notionURLRe(s) ==
    LET at == {p \in 1..Len(s) : notionURLReAt(s, p) # <<>>}
    IN  IF at = {} THEN <<>>
        ELSE notionURLReAt(s, CHOOSE p \in at : \A r \in at : p <= r)

UuidGroups == <<8, 4, 4, 4, 12>>

RECURSIVE uuidReFrom(_, _, _)
uuidReFrom(s, i, g) ==
    IF g > Len(UuidGroups) THEN i = Len(s) + 1
    ELSE /\ RunAt(s, i, UuidGroups[g], HexLower)
         /\ LET n == i + UuidGroups[g]
            IN  IF g < Len(UuidGroups) /\ n <= Len(s) /\ s[n] = "-"
                THEN uuidReFrom(s, n + 1, g + 1)
                ELSE uuidReFrom(s, n, g + 1)

\* uuidRe.MatchString: every dash of the 8-4-4-4-12 shape is optional.
uuidRe(s) == uuidReFrom(s, 1, 1)

plainIDRe(s) == Len(s) = 32 /\ RunAt(s, 1, 32, HexLower)

formatUUID(id0) ==
    LET id == RemoveAll(id0, "-")
    IN  IF Len(id) # 32 THEN id
        ELSE Slice(id, 0, 8) \o <<"-">> \o Slice(id, 8, 12) \o <<"-">>
             \o Slice(id, 12, 16) \o <<"-">> \o Slice(id, 16, 20) \o <<"-">>
             \o Slice(id, 20, 32)

\* ResolveID without the strings.TrimSpace of its first line.
ResolveID_Untrimmed(input0) ==
    LET input == input0
        m     == IF Contains(input, HostSo) \/ Contains(input, HostSite)
                 THEN notionURLRe(input) ELSE <<>>
    IN  IF m # <<>> THEN formatUUID(m)
        ELSE IF uuidRe(input) THEN input
        ELSE IF plainIDRe(input) THEN formatUUID(input)
        ELSE input

ResolveID(input0) ==
    LET input == TrimSpace(input0)
        m     == IF Contains(input, HostSo) \/ Contains(input, HostSite)
                 THEN notionURLRe(input) ELSE <<>>
    IN  IF m # <<>> THEN formatUUID(m)
        ELSE IF uuidRe(input) THEN input
        ELSE IF plainIDRe(input) THEN formatUUID(input)
        ELSE input

(***************************************************************************)
(* String literals of the source, as character sequences.  A character     *)
(* outside ASCII is written as its code point ("U+2713" is the check mark).*)
(***************************************************************************)
Lit ==
    [    title |-> <<"t", "i", "t", "l", "e">>,
     rich_text |-> <<"r", "i", "c", "h", "_", "t", "e", "x", "t">>,
     number |-> <<"n", "u", "m", "b", "e", "r">>,
     select |-> <<"s", "e", "l", "e", "c", "t">>,
     multi_select |-> <<"m", "u", "l", "t", "i", "_", "s", "e", "l", "e", "c", "t">>,
     status |-> <<"s", "t", "a", "t", "u", "s">>,
     date |-> <<"d", "a", "t", "e">>,
     checkbox |-> <<"c", "h", "e", "c", "k", "b", "o", "x">>,
     url |-> <<"u", "r", "l">>,
     email |-> <<"e", "m", "a", "i", "l">>,
     phone_number |-> <<"p", "h", "o", "n", "e", "_", "n", "u", "m", "b", "e", "r">>,
     people |-> <<"p", "e", "o", "p", "l", "e">>,
     relation |-> <<"r", "e", "l", "a", "t", "i", "o", "n">>,
     formula |-> <<"f", "o", "r", "m", "u", "l", "a">>,
     rollup |-> <<"r", "o", "l", "l", "u", "p">>,
     created_time |-> <<"c", "r", "e", "a", "t", "e", "d", "_", "t", "i", "m", "e">>,
     last_edited_time |-> <<"l", "a", "s", "t", "_", "e", "d", "i", "t", "e", "d", "_", "t", "i", "m", "e">>,
     created_by |-> <<"c", "r", "e", "a", "t", "e", "d", "_", "b", "y">>,
     last_edited_by |-> <<"l", "a", "s", "t", "_", "e", "d", "i", "t", "e", "d", "_", "b", "y">>,
     text |-> <<"t", "e", "x", "t">>,
     content |-> <<"c", "o", "n", "t", "e", "n", "t">>,
     name |-> <<"n", "a", "m", "e">>,
     start |-> <<"s", "t", "a", "r", "t">>,
     end |-> <<"e", "n", "d">>,
     type |-> <<"t", "y", "p", "e">>,
     plain_text |-> <<"p", "l", "a", "i", "n", "_", "t", "e", "x", "t">>,
     id |-> <<"i", "d">>,
     property |-> <<"p", "r", "o", "p", "e", "r", "t", "y">>,
     eq |-> <<"e", "q">>,
     neq |-> <<"n", "e", "q">>,
     gt |-> <<"g", "t">>,
     gte |-> <<"g", "t", "e">>,
     lt |-> <<"l", "t">>,
     lte |-> <<"l", "t", "e">>,
     contains |-> <<"c", "o", "n", "t", "a", "i", "n", "s">>,
     not_contains |-> <<"n", "o", "t", "_", "c", "o", "n", "t", "a", "i", "n", "s">>,
     equals |-> <<"e", "q", "u", "a", "l", "s">>,
     does_not_equal |-> <<"d", "o", "e", "s", "_", "n", "o", "t", "_", "e", "q", "u", "a", "l">>,
     does_not_contain |-> <<"d", "o", "e", "s", "_", "n", "o", "t", "_", "c", "o", "n", "t", "a", "i", "n">>,
     greater_than |-> <<"g", "r", "e", "a", "t", "e", "r", "_", "t", "h", "a", "n">>,
     greater_than_or_equal_to |-> <<"g", "r", "e", "a", "t", "e", "r", "_", "t", "h", "a", "n", "_", "o", "r", "_", "e", "q", "u", "a", "l", "_", "t", "o">>,
     less_than |-> <<"l", "e", "s", "s", "_", "t", "h", "a", "n">>,
     less_than_or_equal_to |-> <<"l", "e", "s", "s", "_", "t", "h", "a", "n", "_", "o", "r", "_", "e", "q", "u", "a", "l", "_", "t", "o">>,
     on_or_after |-> <<"o", "n", "_", "o", "r", "_", "a", "f", "t", "e", "r">>,
     on_or_before |-> <<"o", "n", "_", "o", "r", "_", "b", "e", "f", "o", "r", "e">>,
     true |-> <<"t", "r", "u", "e">>,
     false |-> <<"f", "a", "l", "s", "e">>,
     yes |-> <<"y", "e", "s">>,
     string |-> <<"s", "t", "r", "i", "n", "g">>,
     boolean |-> <<"b", "o", "o", "l", "e", "a", "n">>,
     array |-> <<"a", "r", "r", "a", "y">>,
     unknown_type |-> <<"u", "n", "k", "n", "o", "w", "n", "_", "t", "y", "p", "e">>,
     time_zone |-> <<"t", "i", "m", "e", "_", "z", "o", "n", "e">>,
     Count |-> <<"C", "o", "u", "n", "t">>,
     Done |-> <<"D", "o", "n", "e">>,
     desc |-> <<"d", "e", "s", "c">>,
     descending |-> <<"d", "e", "s", "c", "e", "n", "d", "i", "n", "g">>,
     ascending |-> <<"a", "s", "c", "e", "n", "d", "i", "n", "g">>,
     direction |-> <<"d", "i", "r", "e", "c", "t", "i", "o", "n">>,
     asc |-> <<"a", "s", "c">>,
     and |-> <<"a", "n", "d">>,
     filter |-> <<"f", "i", "l", "t", "e", "r">>,
     sorts |-> <<"s", "o", "r", "t", "s">>,
     page_size |-> <<"p", "a", "g", "e", "_", "s", "i", "z", "e">>,
     object |-> <<"o", "b", "j", "e", "c", "t">>,
     block |-> <<"b", "l", "o", "c", "k">>,
     code |-> <<"c", "o", "d", "e">>,
     language |-> <<"l", "a", "n", "g", "u", "a", "g", "e">>,
     heading_1 |-> <<"h", "e", "a", "d", "i", "n", "g", "_", "1">>,
     heading_2 |-> <<"h", "e", "a", "d", "i", "n", "g", "_", "2">>,
     heading_3 |-> <<"h", "e", "a", "d", "i", "n", "g", "_", "3">>,
     to_do |-> <<"t", "o", "_", "d", "o">>,
     checked |-> <<"c", "h", "e", "c", "k", "e", "d">>,
     bulleted_list_item |-> <<"b", "u", "l", "l", "e", "t", "e", "d", "_", "l", "i", "s", "t", "_", "i", "t", "e", "m">>,
     numbered_list_item |-> <<"n", "u", "m", "b", "e", "r", "e", "d", "_", "l", "i", "s", "t", "_", "i", "t", "e", "m">>,
     quote |-> <<"q", "u", "o", "t", "e">>,
     divider |-> <<"d", "i", "v", "i", "d", "e", "r">>,
     paragraph |-> <<"p", "a", "r", "a", "g", "r", "a", "p", "h">>,
     plain_text_language |-> <<"p", "l", "a", "i", "n", " ", "t", "e", "x", "t">>,
     results |-> <<"r", "e", "s", "u", "l", "t", "s">>,
     has_more |-> <<"h", "a", "s", "_", "m", "o", "r", "e">>,
     next_cursor |-> <<"n", "e", "x", "t", "_", "c", "u", "r", "s", "o", "r">>,
     json |-> <<"j", "s", "o", "n">>,
     table |-> <<"t", "a", "b", "l", "e">>,
     GET |-> <<"G", "E", "T">>,
     POST |-> <<"P", "O", "S", "T">>,
     PATCH |-> <<"P", "A", "T", "C", "H">>,
     DELETE |-> <<"D", "E", "L", "E", "T", "E">>,
     PUT |-> <<"P", "U", "T">>,
     parent |-> <<"p", "a", "r", "e", "n", "t">>,
     database_id |-> <<"d", "a", "t", "a", "b", "a", "s", "e", "_", "i", "d">>,
     properties |-> <<"p", "r", "o", "p", "e", "r", "t", "i", "e", "s">>,
     v1_pages |-> <<"/", "v", "1", "/", "p", "a", "g", "e", "s">>,
     v1_blocks |-> <<"/", "v", "1", "/", "b", "l", "o", "c", "k", "s", "/">>,
     v1_databases |-> <<"/", "v", "1", "/", "d", "a", "t", "a", "b", "a", "s", "e", "s", "/">>,
     v1_pages_slash |-> <<"/", "v", "1", "/", "p", "a", "g", "e", "s", "/">>,
     children |-> <<"c", "h", "i", "l", "d", "r", "e", "n">>,
     token |-> <<"t", "o", "k", "e", "n">>,
     workspace_name |-> <<"w", "o", "r", "k", "s", "p", "a", "c", "e", "_", "n", "a", "m", "e">>,
     workspace_id |-> <<"w", "o", "r", "k", "s", "p", "a", "c", "e", "_", "i", "d">>,
     bot_id |-> <<"b", "o", "t", "_", "i", "d">>,
     bot |-> <<"b", "o", "t">>,
     start_cursor |-> <<"s", "t", "a", "r", "t", "_", "c", "u", "r", "s", "o", "r">>,
     slash_query |-> <<"/", "q", "u", "e", "r", "y">>]

\* The printable ASCII characters in code order, the sort order of Go strings
\* (without the double quote, the backslash and the back quote).
Ascii ==
    <<  " ", "!", "#", "$", "%", "&", "'", "(", ")", "*", "+",
      ",", "-", ".", "/", "0", "1", "2", "3", "4", "5", "6", "7",
      "8", "9", ":", ";", "<", "=", ">", "?", "@", "A", "B", "C",
      "D", "E", "F", "G", "H", "I", "J", "K", "L", "M", "N", "O",
      "P", "Q", "R", "S", "T", "U", "V", "W", "X", "Y", "Z", "[",
      "]", "^", "_", "a", "b", "c", "d", "e", "f", "g",
      "h", "i", "j", "k", "l", "m", "n", "o", "p", "q", "r", "s",
      "t", "u", "v", "w", "x", "y", "z", "{", "|", "}", "~">>

CheckMark == <<"U+2713">>
BallotX == <<"U+2717">>
Arrow == <<" ", "U+2192", " ">>

(***************************************************************************)
(* Go values of type interface{}: the pair of a kind (the dynamic type)    *)
(* and a value.  A map is a function from keys (strings) to such pairs.    *)
(***************************************************************************)
JNil == <<"nil", <<>>>>
JStr(s) == <<"string", s>>
JBool(b) == <<"bool", b>>
JFloat(f) == <<"float64", f>>
JInt(n) == <<"int", n>>
JMap(m) == <<"map[string]interface{}", m>>
JList(a) == <<"[]interface{}", a>>
JMapList(a) == <<"[]map[string]interface{}", a>>
Kind(x) == x[1]
Val(x) == x[2]

EmptyMap == [x \in {} |-> JNil]

\* m[key]: the nil interface when the key is absent.
Get(m, key) == IF key \in DOMAIN m THEN m[key] ELSE JNil
\* s, _ := x.(string)
StringOf(x) == IF Kind(x) = "string" THEN Val(x) ELSE <<>>
IsMap(x) == Kind(x) = "map[string]interface{}"
IsList(x) == Kind(x) = "[]interface{}"

\* strings.Split for a non-empty separator.
RECURSIVE Split(_, _)
Split(s, sep) ==
    LET i == Index(s, sep)
    IN  IF i < 0 THEN <<s>>
        ELSE <<Slice(s, 0, i)>> \o Split(Slice(s, i + Len(sep), Len(s)), sep)

RECURSIVE Join(_, _)
Join(parts, sep) ==
    IF parts = <<>> THEN <<>>
    ELSE IF Len(parts) = 1 THEN parts[1]
    ELSE parts[1] \o sep \o Join(Tail(parts), sep)

(***************************************************************************)
(* strconv.ParseFloat and the %v verb of fmt                               *)
(***************************************************************************)
Digits == {"0", "1", "2", "3", "4", "5", "6", "7", "8", "9"}

RECURSIVE StripLeadingZeros(_)
StripLeadingZeros(d) ==
    IF Len(d) > 1 /\ d[1] = "0" THEN StripLeadingZeros(Tail(d)) ELSE d

RECURSIVE StripTrailingZeros(_)
StripTrailingZeros(d) ==
    IF d # <<>> /\ d[Len(d)] = "0" THEN StripTrailingZeros(SubSeq(d, 1, Len(d) - 1)) ELSE d

\* json.Number(value).Float64(), that is strconv.ParseFloat(value, 64), on
\* strings without exponent, hexadecimal, underscore, infinity or NaN
\* syntax: an optional sign, digits, at most one point, at least one digit.
\* A float is its sign, the digits of its integer part and the digits of its
\* fraction, both without redundant zeros.
ParseFloat(s) ==
    LET signed == s # <<>> /\ s[1] \in {"+", "-"}
        body   == IF signed THEN Tail(s) ELSE s
        dots   == {i \in 1..Len(body) : body[i] = "."}
        dot    == IF dots = {} THEN Len(body) + 1 ELSE CHOOSE i \in dots : TRUE
        ip     == SubSeq(body, 1, dot - 1)
        fp     == SubSeq(body, dot + 1, Len(body))
        ok     == /\ Cardinality(dots) <= 1
                  /\ \A i \in 1..Len(ip) : ip[i] \in Digits
                  /\ \A i \in 1..Len(fp) : fp[i] \in Digits
                  /\ Len(ip) + Len(fp) >= 1
    IN  IF ok THEN [err |-> FALSE,
                    f |-> [neg |-> signed /\ s[1] = "-",
                           ip |-> StripLeadingZeros(IF ip = <<>> THEN <<"0">> ELSE ip),
                           fp |-> StripTrailingZeros(fp)]]
        ELSE [err |-> TRUE, f |-> [neg |-> FALSE, ip |-> <<"0">>, fp |-> <<>>]]

\* strconv.FormatFloat(f, 'g', -1, 64) for 1e-4 <= |f| < 1e21 and for zero.
FormatFloat(f) ==
    (IF f.neg THEN <<"-">> ELSE <<>>) \o f.ip
    \o (IF f.fp = <<>> THEN <<>> ELSE <<".">> \o f.fp)

CharCode(c) == IF \E i \in 1..Len(Ascii) : Ascii[i] = c
               THEN CHOOSE i \in 1..Len(Ascii) : Ascii[i] = c
               ELSE Len(Ascii) + 1

RECURSIVE StrLess(_, _)
StrLess(a, b) ==
    IF b = <<>> THEN FALSE
    ELSE IF a = <<>> THEN TRUE
    ELSE IF a[1] # b[1] THEN CharCode(a[1]) < CharCode(b[1])
    ELSE StrLess(Tail(a), Tail(b))

\* The keys of a map in increasing order, as fmt prints them.
RECURSIVE SortedKeys(_)
SortedKeys(K) ==
    IF K = {} THEN <<>>
    ELSE LET lo == CHOOSE x \in K : \A y \in K \ {x} : StrLess(x, y)
         IN  <<lo>> \o SortedKeys(K \ {lo})

\* fmt.Sprintf("%v", x)
RECURSIVE FmtV(_)
FmtV(x) ==
    CASE Kind(x) = "nil" -> <<"<", "n", "i", "l", ">">>
      [] Kind(x) = "string" -> Val(x)
      [] Kind(x) = "bool" -> IF Val(x) THEN Lit.true ELSE Lit.false
      [] Kind(x) = "float64" -> FormatFloat(Val(x))
      [] Kind(x) = "map[string]interface{}" ->
            LET keys == SortedKeys(DOMAIN Val(x))
            IN  <<"m", "a", "p", "[">>
                \o Join([i \in 1..Len(keys) |-> keys[i] \o <<":">> \o FmtV(Val(x)[keys[i]])], <<" ">>)
                \o <<"]">>
      [] Kind(x) = "[]interface{}" ->
            <<"[">> \o Join([i \in 1..Len(Val(x)) |-> FmtV(Val(x)[i])], <<" ">>) \o <<"]">>
      [] Kind(x) = "[]map[string]interface{}" ->
            <<"[">> \o Join([i \in 1..Len(Val(x)) |-> FmtV(JMap(Val(x)[i]))], <<" ">>) \o <<"]">>

(***************************************************************************)
(* cmd/page.go: the property codec                                         *)
(***************************************************************************)
\* A rich-text list with the single run {"text": {"content": value}}.
TextRun(value) ==
    JMapList(<<Lit.text :> JMap(Lit.content :> JStr(value))>>)

\* buildPropertyValue nesting a phone number under the key "phone".
buildPropertyValue_PhoneKey(propType, value) ==
    CASE propType = Lit.title -> JMap(Lit.title :> TextRun(value))
      [] propType = Lit.rich_text -> JMap(Lit.rich_text :> TextRun(value))
      [] propType = Lit.number ->
            LET n == ParseFloat(value)
            IN  IF ~n.err THEN JMap(Lit.number :> JFloat(n.f))
                ELSE JMap(Lit.number :> JStr(value))
      [] propType = Lit.select -> JMap(Lit.select :> JMap(Lit.name :> JStr(value)))
      [] propType = Lit.multi_select ->
            LET names == Split(value, <<",">>)
            IN  JMap(Lit.multi_select :>
                     JMapList([i \in 1..Len(names) |-> Lit.name :> JStr(TrimSpace(names[i]))]))
      [] propType = Lit.status -> JMap(Lit.status :> JMap(Lit.name :> JStr(value)))
      [] propType = Lit.date -> JMap(Lit.date :> JMap(Lit.start :> JStr(value)))
      [] propType = Lit.checkbox -> JMap(Lit.checkbox :> JBool(value = Lit.true \/ value = <<"1">> \/ value = Lit.yes))
      [] propType = Lit.url -> JMap(Lit.url :> JStr(value))
      [] propType = Lit.email -> JMap(Lit.email :> JStr(value))
      [] propType = Lit.phone_number -> JMap(<<"p", "h", "o", "n", "e">> :> JStr(value))
      [] OTHER -> JMap(Lit.rich_text :> TextRun(value))

\* buildPropertyValue nesting the value of an unknown tag under that tag.
buildPropertyValue_NoFallback(propType, value) ==
    CASE propType = Lit.title -> JMap(Lit.title :> TextRun(value))
      [] propType = Lit.rich_text -> JMap(Lit.rich_text :> TextRun(value))
      [] propType = Lit.number ->
            LET n == ParseFloat(value)
            IN  IF ~n.err THEN JMap(Lit.number :> JFloat(n.f))
                ELSE JMap(Lit.number :> JStr(value))
      [] propType = Lit.select -> JMap(Lit.select :> JMap(Lit.name :> JStr(value)))
      [] propType = Lit.multi_select ->
            LET names == Split(value, <<",">>)
            IN  JMap(Lit.multi_select :>
                     JMapList([i \in 1..Len(names) |-> Lit.name :> JStr(TrimSpace(names[i]))]))
      [] propType = Lit.status -> JMap(Lit.status :> JMap(Lit.name :> JStr(value)))
      [] propType = Lit.date -> JMap(Lit.date :> JMap(Lit.start :> JStr(value)))
      [] propType = Lit.checkbox -> JMap(Lit.checkbox :> JBool(value = Lit.true \/ value = <<"1">> \/ value = Lit.yes))
      [] propType = Lit.url -> JMap(Lit.url :> JStr(value))
      [] propType = Lit.email -> JMap(Lit.email :> JStr(value))
      [] propType = Lit.phone_number -> JMap(Lit.phone_number :> JStr(value))
      [] OTHER -> JMap(propType :> TextRun(value))

buildPropertyValue(propType, value) ==
    CASE propType = Lit.title -> JMap(Lit.title :> TextRun(value))
      [] propType = Lit.rich_text -> JMap(Lit.rich_text :> TextRun(value))
      [] propType = Lit.number ->
            LET n == ParseFloat(value)
            IN  IF ~n.err THEN JMap(Lit.number :> JFloat(n.f))
                ELSE JMap(Lit.number :> JStr(value))
      [] propType = Lit.select -> JMap(Lit.select :> JMap(Lit.name :> JStr(value)))
      [] propType = Lit.multi_select ->
            LET names == Split(value, <<",">>)
            IN  JMap(Lit.multi_select :>
                     JMapList([i \in 1..Len(names) |-> Lit.name :> JStr(TrimSpace(names[i]))]))
      [] propType = Lit.status -> JMap(Lit.status :> JMap(Lit.name :> JStr(value)))
      [] propType = Lit.date -> JMap(Lit.date :> JMap(Lit.start :> JStr(value)))
      [] propType = Lit.checkbox -> JMap(Lit.checkbox :> JBool(value = Lit.true \/ value = <<"1">> \/ value = Lit.yes))
      [] propType = Lit.url -> JMap(Lit.url :> JStr(value))
      [] propType = Lit.email -> JMap(Lit.email :> JStr(value))
      [] propType = Lit.phone_number -> JMap(Lit.phone_number :> JStr(value))
      [] OTHER -> JMap(Lit.rich_text :> TextRun(value))

\* The elements of a []interface{} that are maps, in order.
MapsOf(arr) ==
    LET isMap(x) == IsMap(x) IN SelectSeq(arr, isMap)

extractPlainTextFromRichText(arr) ==
    LET hasText(x) == IsMap(x) /\ Kind(Get(Val(x), Lit.plain_text)) = "string"
        runs == SelectSeq(arr, hasText)
    IN  Join([i \in 1..Len(runs) |-> Val(Val(runs[i])[Lit.plain_text])], <<>>)

\* The values of one string field of the maps of a list, joined with ", ".
JoinField(arr, key) ==
    LET ms == MapsOf(arr)
    IN  Join([i \in 1..Len(ms) |-> StringOf(Get(Val(ms[i]), key))], <<",", " ">>)

extractPropertyValue(prop) ==
    LET propType == StringOf(Get(prop, Lit.type))
        p == Get(prop, propType)
    IN  CASE propType \in {Lit.title, Lit.rich_text} /\ IsList(p) ->
                extractPlainTextFromRichText(Val(p))
          [] propType = Lit.number /\ Lit.number \in DOMAIN prop /\ Kind(p) # "nil" -> FmtV(p)
          [] propType \in {Lit.select, Lit.status} /\ IsMap(p) -> StringOf(Get(Val(p), Lit.name))
          [] propType \in {Lit.multi_select, Lit.people} /\ IsList(p) -> JoinField(Val(p), Lit.name)
          [] propType = Lit.date /\ IsMap(p) ->
                LET start == StringOf(Get(Val(p), Lit.start))
                    end   == StringOf(Get(Val(p), Lit.end))
                IN  IF end # <<>> THEN start \o Arrow \o end ELSE start
          [] propType = Lit.checkbox /\ Kind(p) = "bool" -> IF Val(p) THEN CheckMark ELSE BallotX
          [] propType \in {Lit.url, Lit.email, Lit.phone_number,
                           Lit.created_time, Lit.last_edited_time} /\ Kind(p) = "string" -> Val(p)
          [] propType = Lit.relation /\ IsList(p) -> JoinField(Val(p), Lit.id)
          [] propType \in {Lit.formula, Lit.rollup} /\ IsMap(p)
               /\ StringOf(Get(Val(p), Lit.type)) \in DOMAIN Val(p) ->
                FmtV(Val(p)[StringOf(Get(Val(p), Lit.type))])
          [] propType \in {Lit.created_by, Lit.last_edited_by} /\ IsMap(p) ->
                StringOf(Get(Val(p), Lit.name))
          [] OTHER -> <<>>

(***************************************************************************)
(* cmd/db.go: the filter compiler                                          *)
(***************************************************************************)
mapTextOp(op) ==
    CASE op = Lit.eq -> Lit.equals
      [] op = Lit.neq -> Lit.does_not_equal
      [] op = Lit.contains -> Lit.contains
      [] op = Lit.not_contains -> Lit.does_not_contain
      [] OTHER -> Lit.equals

mapNumberOp(op) ==
    CASE op = Lit.eq -> Lit.equals
      [] op = Lit.neq -> Lit.does_not_equal
      [] op = Lit.gt -> Lit.greater_than
      [] op = Lit.gte -> Lit.greater_than_or_equal_to
      [] op = Lit.lt -> Lit.less_than
      [] op = Lit.lte -> Lit.less_than_or_equal_to
      [] OTHER -> Lit.equals

\* mapDateOp answering with the number words for the comparisons.
mapDateOp_NumberWords(op) ==
    CASE op = Lit.eq -> Lit.equals
      [] op \in {Lit.gt, Lit.gte} -> Lit.greater_than
      [] op \in {Lit.lt, Lit.lte} -> Lit.less_than
      [] op = Lit.neq -> Lit.does_not_equal
      [] OTHER -> Lit.equals

mapDateOp(op) ==
    CASE op = Lit.eq -> Lit.equals
      [] op \in {Lit.gt, Lit.gte} -> Lit.on_or_after
      [] op \in {Lit.lt, Lit.lte} -> Lit.on_or_before
      [] op = Lit.neq -> Lit.does_not_equal
      [] OTHER -> Lit.equals

\* buildFilter taking only the string true for a checked checkbox.
buildFilter_TrueOnly(propName, propType, op, value) ==
    LET property == Lit.property :> JStr(propName)
    IN  CASE propType \in {Lit.title, Lit.rich_text, Lit.url, Lit.email, Lit.phone_number} ->
                property @@ (propType :> JMap(mapTextOp(op) :> JStr(value)))
          [] propType = Lit.number ->
                LET n == ParseFloat(value)
                    numVal == IF ~n.err THEN JFloat(n.f) ELSE JStr(value)
                IN  property @@ (Lit.number :> JMap(mapNumberOp(op) :> numVal))
          [] propType = Lit.select ->
                property @@ (Lit.select :>
                    JMap((IF op = Lit.neq THEN Lit.does_not_equal ELSE Lit.equals) :> JStr(value)))
          [] propType = Lit.multi_select ->
                property @@ (Lit.multi_select :>
                    JMap((IF op = Lit.not_contains \/ op = Lit.neq
                          THEN Lit.does_not_contain ELSE Lit.contains) :> JStr(value)))
          [] propType = Lit.status ->
                property @@ (Lit.status :>
                    JMap((IF op = Lit.neq THEN Lit.does_not_equal ELSE Lit.equals) :> JStr(value)))
          [] propType \in {Lit.date, Lit.created_time, Lit.last_edited_time} ->
                property @@ (propType :> JMap(mapDateOp(op) :> JStr(value)))
          [] propType = Lit.checkbox ->
                property @@ (Lit.checkbox :>
                    JMap(Lit.equals :>
                         JBool(value = Lit.true)))
          [] OTHER ->
                property @@ (Lit.rich_text :> JMap(mapTextOp(op) :> JStr(value)))

buildFilter(propName, propType, op, value) ==
    LET property == Lit.property :> JStr(propName)
    IN  CASE propType \in {Lit.title, Lit.rich_text, Lit.url, Lit.email, Lit.phone_number} ->
                property @@ (propType :> JMap(mapTextOp(op) :> JStr(value)))
          [] propType = Lit.number ->
                LET n == ParseFloat(value)
                    numVal == IF ~n.err THEN JFloat(n.f) ELSE JStr(value)
                IN  property @@ (Lit.number :> JMap(mapNumberOp(op) :> numVal))
          [] propType = Lit.select ->
                property @@ (Lit.select :>
                    JMap((IF op = Lit.neq THEN Lit.does_not_equal ELSE Lit.equals) :> JStr(value)))
          [] propType = Lit.multi_select ->
                property @@ (Lit.multi_select :>
                    JMap((IF op = Lit.not_contains \/ op = Lit.neq
                          THEN Lit.does_not_contain ELSE Lit.contains) :> JStr(value)))
          [] propType = Lit.status ->
                property @@ (Lit.status :>
                    JMap((IF op = Lit.neq THEN Lit.does_not_equal ELSE Lit.equals) :> JStr(value)))
          [] propType \in {Lit.date, Lit.created_time, Lit.last_edited_time} ->
                property @@ (propType :> JMap(mapDateOp(op) :> JStr(value)))
          [] propType = Lit.checkbox ->
                property @@ (Lit.checkbox :>
                    JMap(Lit.equals :>
                         JBool(value = Lit.true \/ value = <<"1">> \/ value = Lit.yes)))
          [] OTHER ->
                property @@ (Lit.rich_text :> JMap(mapTextOp(op) :> JStr(value)))

\* The operator table with the one-character operators tried first.
operators_ShortFirst ==
    <<[op |-> <<">">>, notion |-> Lit.gt],
      [op |-> <<"<">>, notion |-> Lit.lt],
      [op |-> <<"=">>, notion |-> Lit.eq],
      [op |-> <<">", "=">>, notion |-> Lit.gte],
      [op |-> <<"<", "=">>, notion |-> Lit.lte],
      [op |-> <<"!", "=">>, notion |-> Lit.neq],
      [op |-> <<"~", "=">>, notion |-> Lit.contains],
      [op |-> <<"!", "~", "=">>, notion |-> Lit.not_contains]>>

\* The operator table of parseFilter, in the order the loop tries it.
operators ==
    <<[op |-> <<">", "=">>, notion |-> Lit.gte],
      [op |-> <<"<", "=">>, notion |-> Lit.lte],
      [op |-> <<"!", "=">>, notion |-> Lit.neq],
      [op |-> <<"~", "=">>, notion |-> Lit.contains],
      [op |-> <<"!", "~", "=">>, notion |-> Lit.not_contains],
      [op |-> <<">">>, notion |-> Lit.gt],
      [op |-> <<"<">>, notion |-> Lit.lt],
      [op |-> <<"=">>, notion |-> Lit.eq]>>

ErrNone == "nil"
ErrNotFound == "property not found in database"
ErrNoOperator == "no valid operator found in expression"

\* parseFilter that compiles a filter of an unknown type for a name the
\* schema lacks.
parseFilter_NoLookup(expr, dbProps) ==
    LET found == {i \in 1..Len(operators) : Index(expr, operators[i].op) >= 0}
    IN  IF found = {}
        THEN [err |-> ErrNoOperator, filter |-> EmptyMap,
              propName |-> <<>>, op |-> <<>>, value |-> <<>>]
        ELSE LET op       == operators[CHOOSE i \in found : \A j \in found : i <= j]
                 idx      == Index(expr, op.op)
                 propName == TrimSpace(Slice(expr, 0, idx))
                 value    == TrimSpace(Slice(expr, idx + Len(op.op), Len(expr)))
                 propDef  == Get(dbProps, propName)
             IN  [err |-> ErrNone,
                  filter |-> buildFilter(propName,
                                 IF IsMap(propDef) THEN StringOf(Get(Val(propDef), Lit.type))
                                 ELSE <<>>,
                                 op.notion, value),
                  propName |-> propName, op |-> op.notion, value |-> value]

\* parseFilter: the first operator of the table that occurs in expr splits
\* it at its first occurrence.  The result carries the error, the filter and
\* the locals of the loop body.
parseFilter(expr, dbProps) ==
    LET found == {i \in 1..Len(operators) : Index(expr, operators[i].op) >= 0}
    IN  IF found = {}
        THEN [err |-> ErrNoOperator, filter |-> EmptyMap,
              propName |-> <<>>, op |-> <<>>, value |-> <<>>]
        ELSE LET op       == operators[CHOOSE i \in found : \A j \in found : i <= j]
                 idx      == Index(expr, op.op)
                 propName == TrimSpace(Slice(expr, 0, idx))
                 value    == TrimSpace(Slice(expr, idx + Len(op.op), Len(expr)))
                 propDef  == Get(dbProps, propName)
             IN  IF ~IsMap(propDef)
                 THEN [err |-> ErrNotFound, filter |-> EmptyMap,
                       propName |-> propName, op |-> op.notion, value |-> value]
                 ELSE [err |-> ErrNone,
                       filter |-> buildFilter(propName, StringOf(Get(Val(propDef), Lit.type)),
                                              op.notion, value),
                       propName |-> propName, op |-> op.notion, value |-> value]

\* strings.SplitN for n > 0: at most n parts, the last one unsplit.
RECURSIVE SplitN(_, _, _)
SplitN(s, sep, n) ==
    LET i == Index(s, sep)
    IN  IF n = 1 \/ i < 0 THEN <<s>>
        ELSE <<Slice(s, 0, i)>> \o SplitN(Slice(s, i + Len(sep), Len(s)), sep, n - 1)

UpperCase ==
    <<"A", "B", "C", "D", "E", "F", "G", "H", "I", "J", "K", "L", "M",
      "N", "O", "P", "Q", "R", "S", "T", "U", "V", "W", "X", "Y", "Z">>
LowerCase ==
    <<"a", "b", "c", "d", "e", "f", "g", "h", "i", "j", "k", "l", "m",
      "n", "o", "p", "q", "r", "s", "t", "u", "v", "w", "x", "y", "z">>

\* strings.ToLower on ASCII text.
ToLower(s) ==
    [i \in 1..Len(s) |->
        IF \E k \in 1..Len(UpperCase) : UpperCase[k] = s[i]
        THEN LowerCase[CHOOSE k \in 1..Len(UpperCase) : UpperCase[k] = s[i]]
        ELSE s[i]]

\* parseSort comparing the direction as written.
parseSort_CaseSensitive(expr) ==
    LET parts    == SplitN(expr, <<":">>, 2)
        propName == TrimSpace(parts[1])
        d        == IF Len(parts) = 2 THEN TrimSpace(parts[2]) ELSE <<>>
        direction == IF Len(parts) = 2 /\ (d = Lit.desc \/ d = Lit.descending)
                     THEN Lit.descending ELSE Lit.ascending
    IN  (Lit.property :> JStr(propName)) @@ (Lit.direction :> JStr(direction))

\* parseSort: the text before the first ':' names the property, the text
\* after it the direction.
parseSort(expr) ==
    LET parts    == SplitN(expr, <<":">>, 2)
        propName == TrimSpace(parts[1])
        d        == IF Len(parts) = 2 THEN TrimSpace(ToLower(parts[2])) ELSE <<>>
        direction == IF Len(parts) = 2 /\ (d = Lit.desc \/ d = Lit.descending)
                     THEN Lit.descending ELSE Lit.ascending
    IN  (Lit.property :> JStr(propName)) @@ (Lit.direction :> JStr(direction))

\* The loop of db query over the --filter flags: the conditions in flag
\* order, or the error of the first expression that does not compile.
RECURSIVE parseFilters(_, _)
parseFilters(filters, dbProps) ==
    LET append(first, rest) ==
            IF first.err # ErrNone
            THEN [err |-> first.err, filterConditions |-> <<>>]
            ELSE IF rest.err # ErrNone THEN rest
            ELSE [err |-> ErrNone,
                  filterConditions |-> <<JMap(first.filter)>> \o rest.filterConditions]
    IN  IF filters = <<>> THEN [err |-> ErrNone, filterConditions |-> <<>>]
        ELSE append(parseFilter(Head(filters), dbProps),
                    parseFilters(Tail(filters), dbProps))

\* The request body of db query wrapping a single condition as well.
dbQueryBody_AlwaysAnd(filters, sorts, limit, dbProps) ==
    LET sortPart ==
            IF Len(sorts) > 0
            THEN Lit.sorts :> JList([i \in 1..Len(sorts) |-> JMap(parseSort(sorts[i]))])
            ELSE EmptyMap
        limitPart == IF limit > 0 THEN Lit.page_size :> JInt(limit) ELSE EmptyMap
        filterPart(parsed) ==
            IF Len(filters) > 0
            THEN Lit.filter :> JMap(Lit.and :> JList(parsed.filterConditions))
            ELSE EmptyMap
        query(parsed) ==
            IF parsed.err # ErrNone
            THEN [err |-> parsed.err, body |-> EmptyMap]
            ELSE [err |-> ErrNone, body |-> filterPart(parsed) @@ sortPart @@ limitPart]
    IN  query(parseFilters(filters, dbProps))

\* The request body db query builds from its flags and the schema it
\* fetched; a filter that does not compile ends the command before the query.
dbQueryBody(filters, sorts, limit, dbProps) ==
    LET sortPart ==
            IF Len(sorts) > 0
            THEN Lit.sorts :> JList([i \in 1..Len(sorts) |-> JMap(parseSort(sorts[i]))])
            ELSE EmptyMap
        limitPart == IF limit > 0 THEN Lit.page_size :> JInt(limit) ELSE EmptyMap
        filterPart(parsed) ==
            IF Len(filters) > 0
            THEN Lit.filter :> (IF Len(parsed.filterConditions) = 1
                                THEN parsed.filterConditions[1]
                                ELSE JMap(Lit.and :> JList(parsed.filterConditions)))
            ELSE EmptyMap
        query(parsed) ==
            IF parsed.err # ErrNone
            THEN [err |-> parsed.err, body |-> EmptyMap]
            ELSE [err |-> ErrNone, body |-> filterPart(parsed) @@ sortPart @@ limitPart]
    IN  query(parseFilters(filters, dbProps))

(***************************************************************************)
(* cmd/block.go: Markdown to blocks                                        *)
(***************************************************************************)
\* The back quote, written as its code point.
Backtick == "U+0060"
Fence == <<Backtick, Backtick, Backtick>>

HasPrefix(s, prefix) == HasPrefixAt(s, 1, prefix)
TrimPrefix(s, prefix) == IF HasPrefix(s, prefix) THEN SubSeq(s, Len(prefix) + 1, Len(s)) ELSE s

makeTextBlock(blockType, text) ==
    (Lit.object :> JStr(Lit.block))
    @@ (Lit.type :> JStr(blockType))
    @@ (blockType :> JMap(Lit.rich_text :> TextRun(TrimSpace(text))))

\* block["to_do"].(map[string]interface{})["checked"] = checked
SetChecked(block, checked) ==
    [block EXCEPT ![Lit.to_do] = JMap(Val(@) @@ (Lit.checked :> JBool(checked)))]

\* The index of the first line at or after i that begins with a fence, or
\* the number of lines.
RECURSIVE NextFence(_, _)
NextFence(lines, i) ==
    IF i < Len(lines) /\ ~HasPrefix(lines[i + 1], Fence) THEN NextFence(lines, i + 1) ELSE i

\* The fence branch that leaves the closing line to the next iteration.
CodeFence_KeepsClosing(lines, i) ==
    LET trimmed == TrimSpace(TrimPrefix(lines[i + 1], Fence))
        lang    == IF trimmed = <<>> THEN Lit.plain_text_language ELSE trimmed
        close   == NextFence(lines, i + 1)
        codeLines == [k \in 1..(close - i - 1) |-> lines[i + 1 + k]]
    IN  [i |-> close,
         block |-> (Lit.object :> JStr(Lit.block))
                   @@ (Lit.type :> JStr(Lit.code))
                   @@ (Lit.code :> JMap((Lit.rich_text :> TextRun(Join(codeLines, <<"\n">>)))
                                        @@ (Lit.language :> JStr(lang))))]

\* The fence branch of the loop at the opening line i: the lines up to the
\* next fence are the body, and the index moves past the closing line.
CodeFence(lines, i) ==
    LET trimmed == TrimSpace(TrimPrefix(lines[i + 1], Fence))
        lang    == IF trimmed = <<>> THEN Lit.plain_text_language ELSE trimmed
        close   == NextFence(lines, i + 1)
        codeLines == [k \in 1..(close - i - 1) |-> lines[i + 1 + k]]
    IN  [i |-> close + 1,
         block |-> (Lit.object :> JStr(Lit.block))
                   @@ (Lit.type :> JStr(Lit.code))
                   @@ (Lit.code :> JMap((Lit.rich_text :> TextRun(Join(codeLines, <<"\n">>)))
                                        @@ (Lit.language :> JStr(lang))))]

\* One iteration of the loop of parseMarkdownToBlocks at index i (0-based):
\* the new index, the blocks appended, and whether the iteration panicked.
\* line[:5] panics on a line shorter than 5 bytes; it is evaluated only
\* after len(line) > 2 and the digit test.
Iteration(lines, i) ==
    LET line == lines[i + 1]
        one(block) == [i |-> i + 1, blocks |-> <<block>>, panic |-> FALSE]
    IN  IF HasPrefix(line, Fence)
        THEN [i |-> CodeFence(lines, i).i, blocks |-> <<CodeFence(lines, i).block>>,
              panic |-> FALSE]
        ELSE IF TrimSpace(line) = <<>>
        THEN [i |-> i + 1, blocks |-> <<>>, panic |-> FALSE]
        ELSE IF HasPrefix(line, <<"#", "#", "#", " ">>)
        THEN one(makeTextBlock(Lit.heading_3, TrimPrefix(line, <<"#", "#", "#", " ">>)))
        ELSE IF HasPrefix(line, <<"#", "#", " ">>)
        THEN one(makeTextBlock(Lit.heading_2, TrimPrefix(line, <<"#", "#", " ">>)))
        ELSE IF HasPrefix(line, <<"#", " ">>)
        THEN one(makeTextBlock(Lit.heading_1, TrimPrefix(line, <<"#", " ">>)))
        ELSE IF HasPrefix(line, <<"-", " ", "[", " ", "]", " ">>)
        THEN one(SetChecked(makeTextBlock(Lit.to_do, Slice(line, 6, Len(line))), FALSE))
        ELSE IF \/ HasPrefix(line, <<"-", " ", "[", "x", "]", " ">>)
                \/ HasPrefix(line, <<"-", " ", "[", "X", "]", " ">>)
        THEN one(SetChecked(makeTextBlock(Lit.to_do, Slice(line, 6, Len(line))), TRUE))
        ELSE IF HasPrefix(line, <<"-", " ">>) \/ HasPrefix(line, <<"*", " ">>)
        THEN one(makeTextBlock(Lit.bulleted_list_item, Slice(line, 2, Len(line))))
        ELSE IF Len(line) > 2 /\ line[1] \in Digits /\ Len(line) < 5
        THEN [i |-> i, blocks |-> <<>>, panic |-> TRUE]
        ELSE IF Len(line) > 2 /\ line[1] \in Digits /\ Contains(Slice(line, 0, 5), <<".", " ">>)
        THEN one(makeTextBlock(Lit.numbered_list_item,
                               Slice(line, Index(line, <<".", " ">>) + 2, Len(line))))
        ELSE IF HasPrefix(line, <<">", " ">>)
        THEN one(makeTextBlock(Lit.quote, TrimPrefix(line, <<">", " ">>)))
        ELSE IF line \in {<<"-", "-", "-">>, <<"*", "*", "*">>, <<"_", "_", "_">>}
        THEN one((Lit.object :> JStr(Lit.block))
                 @@ (Lit.type :> JStr(Lit.divider))
                 @@ (Lit.divider :> JMap(EmptyMap)))
        ELSE one(makeTextBlock(Lit.paragraph, line))

(***************************************************************************)
(* Pagination: cmd/block.go fetchBlockChildren and the loop of cmd/search.go *)
(***************************************************************************)
ErrRequest == "request failed"

\* The page a paginated endpoint serves for a cursor: the page after the
\* one that handed the cursor out, the first page for any other cursor.
PageOf(source, cursor) ==
    LET before == {p \in 1..(Len(source) - 1) :
                     source[p][Lit.next_cursor] = JStr(cursor)}
    IN  IF before = {} THEN 1 ELSE (CHOOSE p \in before : TRUE) + 1

\* client.GetBlockChildren and client.Search as the command sees them: the
\* nth request fails when the remote is set to fail it, and otherwise
\* answers with the decoded page.
Request(remote, nth, cursor) ==
    IF nth = remote.failAt
    THEN [err |-> ErrRequest, result |-> EmptyMap]
    ELSE [err |-> ErrNone, result |-> remote.source[PageOf(remote.source, cursor)]]

\* results, _ := result["results"].([]interface{})
ListOf(x) == IF IsList(x) THEN Val(x) ELSE <<>>
\* hasMore, _ := result["has_more"].(bool)
BoolOf(x) == IF Kind(x) = "bool" THEN Val(x) ELSE FALSE

\* One pass of the loop that hands the items gathered so far back with
\* the error.
fetchBlockChildrenPass_KeepsItems(l, remote, all) ==
    LET resp    == Request(remote, Len(l.requests) + 1, l.currentCursor)
        sent    == Append(l.requests, l.currentCursor)
        hasMore == BoolOf(Get(resp.result, Lit.has_more))
    IN  IF resp.err # ErrNone
        THEN [l EXCEPT !.requests = sent, !.err = resp.err, !.returned = TRUE]
        ELSE [l EXCEPT !.requests = sent,
                       !.allResults = @ \o ListOf(Get(resp.result, Lit.results)),
                       !.currentCursor = IF ~all \/ ~hasMore THEN @
                                         ELSE StringOf(Get(resp.result, Lit.next_cursor)),
                       !.returned = ~all \/ ~hasMore]

\* One pass of the loop that stops after every page.
fetchBlockChildrenPass_OnePage(l, remote, all) ==
    LET resp    == Request(remote, Len(l.requests) + 1, l.currentCursor)
        sent    == Append(l.requests, l.currentCursor)
    IN  IF resp.err # ErrNone
        THEN [l EXCEPT !.requests = sent, !.allResults = <<>>, !.err = resp.err,
                       !.returned = TRUE]
        ELSE [l EXCEPT !.requests = sent,
                       !.allResults = @ \o ListOf(Get(resp.result, Lit.results)),
                       !.returned = TRUE]

\* One pass of the loop of fetchBlockChildren over its locals l: the request
\* with the current cursor, then either the return of nil and the error or
\* the append and the decision to stop.  requests logs the cursors sent.
fetchBlockChildrenPass(l, remote, all) ==
    LET resp    == Request(remote, Len(l.requests) + 1, l.currentCursor)
        sent    == Append(l.requests, l.currentCursor)
        hasMore == BoolOf(Get(resp.result, Lit.has_more))
    IN  IF resp.err # ErrNone
        THEN [l EXCEPT !.requests = sent, !.allResults = <<>>, !.err = resp.err,
                       !.returned = TRUE]
        ELSE [l EXCEPT !.requests = sent,
                       !.allResults = @ \o ListOf(Get(resp.result, Lit.results)),
                       !.currentCursor = IF ~all \/ ~hasMore THEN @
                                         ELSE StringOf(Get(resp.result, Lit.next_cursor)),
                       !.returned = ~all \/ ~hasMore]

\* One pass of the loop of the search command; rendered is what it prints:
\* nothing on an error, the page itself for --format json without --all,
\* the gathered list otherwise.
searchCmdPass(l, remote, all, outputFormat) ==
    LET resp    == Request(remote, Len(l.requests) + 1, l.currentCursor)
        sent    == Append(l.requests, l.currentCursor)
        results == ListOf(Get(resp.result, Lit.results))
        hasMore == BoolOf(Get(resp.result, Lit.has_more))
    IN  IF resp.err # ErrNone
        THEN [l EXCEPT !.requests = sent, !.allResults = <<>>, !.err = resp.err,
                       !.returned = TRUE]
        ELSE IF outputFormat = Lit.json /\ ~all
        THEN [l EXCEPT !.requests = sent, !.allResults = results, !.returned = TRUE]
        ELSE [l EXCEPT !.requests = sent,
                       !.allResults = @ \o results,
                       !.currentCursor = IF ~all \/ ~hasMore THEN @
                                         ELSE StringOf(Get(resp.result, Lit.next_cursor)),
                       !.returned = ~all \/ ~hasMore]

(***************************************************************************)
(* Commands as the remote sees them: the requests a RunE makes in order,   *)
(* each with what its error branch does.                                   *)
(*   return  - return err or a wrapped error                               *)
(*   report  - print a line with a ballot x to standard output, return nil *)
(*   skip    - continue without a trace                                    *)
(*   warn    - print a line with a ballot x to standard error, continue    *)
(*   collect - note the failure for the final report, continue             *)
(***************************************************************************)
Step(request, onError) == [request |-> request, onError |-> onError]

\* auth doctor: the token check, then the search check.
authDoctorCmd ==
    <<Step("GetMe", "report"), Step("Search", "report")>>

\* block list --depth 2 over a parent whose one page holds n blocks with
\* children: fetchBlockChildren, then fetchNestedBlocks with one child
\* fetch per block.
blockListCmd(n) ==
    <<Step("GetBlockChildren", "return")>> \o [k \in 1..n |-> Step("GetBlockChildren", "skip")]

\* block delete with n identifiers.
blockDeleteCmd(n) == [k \in 1..n |-> Step("Delete", "warn")]

\* db add-bulk with n rows: the schema, then one page per row.
dbAddBulkCmd(n) ==
    <<Step("GetDatabase", "return")>> \o [k \in 1..n |-> Step("Post", "collect")]

\* db query: the schema, then the query.
dbQueryCmd == <<Step("GetDatabase", "return"), Step("QueryDatabase", "return")>>

\* page view: the page, then its blocks.
pageViewCmd == <<Step("GetPage", "return"), Step("GetBlockChildren", "return")>>

\* page set: the page, then the update.
pageSetCmd == <<Step("GetPage", "return"), Step("Patch", "return")>>

\* file upload: the upload object, then the content.
fileUploadCmd == <<Step("Post", "return"), Step("UploadFileContent", "return")>>

\* user me, comment add, block get: one request.
userMeCmd == <<Step("GetMe", "return")>>
commentAddCmd == <<Step("AddComment", "return")>>
blockGetCmd == <<Step("GetBlock", "return")>>

\* One request of a running command.  l.next is the request to make, fails
\* the requests the remote fails; failed logs the failed requests made.
\* A returned error reaches Execute, which prints it to standard error and
\* exits with 1.
RunRequest(l, script, fails) ==
    LET onError == script[l.next].onError
    IN  IF l.next \notin fails
        THEN [l EXCEPT !.next = @ + 1]
        ELSE IF onError = "return"
        THEN [l EXCEPT !.failed = @ \cup {l.next}, !.stderr = Append(@, "Error"),
                       !.exit = 1]
        ELSE IF onError = "report"
        THEN [l EXCEPT !.failed = @ \cup {l.next}, !.stdout = Append(@, "U+2717"),
                       !.exit = 0]
        ELSE IF onError = "warn"
        THEN [l EXCEPT !.failed = @ \cup {l.next}, !.stderr = Append(@, "U+2717"),
                       !.next = @ + 1]
        ELSE IF onError = "collect"
        THEN [l EXCEPT !.failed = @ \cup {l.next}, !.errors = Append(@, "U+2717"),
                       !.next = @ + 1]
        ELSE [l EXCEPT !.failed = @ \cup {l.next}, !.next = @ + 1]

(***************************************************************************)
(* Batch commands: db add-bulk (cmd/db.go) and block delete (cmd/block.go) *)
(***************************************************************************)
ErrNoItems == "no items in file"

\* A request as the remote receives it.
Sent(method, path, body) == [method |-> method, path |-> path, body |-> body]

\* The orders in which a range over a map with the keys S visits them.
Orders(S) ==
    {f \in [1..Cardinality(S) -> S] : \A i, j \in 1..Cardinality(S) : f[i] = f[j] => i = j}

\* db add-bulk up to its loop: no request for an empty file, otherwise the
\* schema is fetched once.
dbAddBulkStart(items, dbID, schemaFails) ==
    LET l == [i |-> 0, created |-> 0, errors |-> <<>>, requests |-> <<>>, stdout |-> <<>>,
              report |-> <<>>, err |-> ErrNone, exit |-> -1, returned |-> FALSE]
        get == Sent(Lit.GET, Lit.v1_databases \o dbID, JNil)
    IN  IF Len(items) = 0
        THEN [l EXCEPT !.err = ErrNoItems, !.exit = 1, !.returned = TRUE]
        ELSE IF schemaFails
        THEN [l EXCEPT !.requests = <<get>>, !.err = ErrRequest, !.exit = 1, !.returned = TRUE]
        ELSE [l EXCEPT !.requests = <<get>>]

\* One row of db add-bulk that counts a row whose request failed.
dbAddBulkRow_CountsFailures(l, item, order, total, dbID, dbProps, outputFormat, postFails) ==
    LET row == l.i + 1
        unknown(key) == ~IsMap(Get(dbProps, key))
        missing == SelectSeq(order, unknown)
        rowErrors == [k \in 1..Len(missing) |->
                         [row |-> row, what |-> "property", key |-> missing[k]]]
        properties ==
            [key \in {k \in DOMAIN item : ~unknown(k)} |->
                buildPropertyValue(StringOf(Get(Val(dbProps[key]), Lit.type)), item[key])]
        body == (Lit.parent :> JMap(Lit.database_id :> JStr(dbID)))
                @@ (Lit.properties :> JMap(properties))
        sent == Append(l.requests, Sent(Lit.POST, Lit.v1_pages, JMap(body)))
    IN  IF postFails
        THEN [l EXCEPT !.i = row, !.requests = sent, !.created = @ + 1,
                       !.errors = @ \o rowErrors
                                    \o <<[row |-> row, what |-> "request", key |-> <<>>]>>]
        ELSE [l EXCEPT !.i = row, !.requests = sent, !.errors = @ \o rowErrors,
                       !.created = @ + 1,
                       !.stdout = IF outputFormat # Lit.json
                                  THEN Append(@, [created |-> l.created + 1, total |-> total])
                                  ELSE @]

\* One row of db add-bulk: the keys of the row in the order the range
\* visits them, an error for every key the schema does not have, then the
\* POST of the page with the properties that were built.
dbAddBulkRow(l, item, order, total, dbID, dbProps, outputFormat, postFails) ==
    LET row == l.i + 1
        unknown(key) == ~IsMap(Get(dbProps, key))
        missing == SelectSeq(order, unknown)
        rowErrors == [k \in 1..Len(missing) |->
                         [row |-> row, what |-> "property", key |-> missing[k]]]
        properties ==
            [key \in {k \in DOMAIN item : ~unknown(k)} |->
                buildPropertyValue(StringOf(Get(Val(dbProps[key]), Lit.type)), item[key])]
        body == (Lit.parent :> JMap(Lit.database_id :> JStr(dbID)))
                @@ (Lit.properties :> JMap(properties))
        sent == Append(l.requests, Sent(Lit.POST, Lit.v1_pages, JMap(body)))
    IN  IF postFails
        THEN [l EXCEPT !.i = row, !.requests = sent,
                       !.errors = @ \o rowErrors
                                    \o <<[row |-> row, what |-> "request", key |-> <<>>]>>]
        ELSE [l EXCEPT !.i = row, !.requests = sent, !.errors = @ \o rowErrors,
                       !.created = @ + 1,
                       !.stdout = IF outputFormat # Lit.json
                                  THEN Append(@, [created |-> l.created + 1, total |-> total])
                                  ELSE @]

\* The report of db add-bulk after the loop: the count, the total and the
\* errors, as JSON or as lines.
dbAddBulkReport(l, total) ==
    [l EXCEPT !.report = [created |-> l.created, total |-> total, errors |-> l.errors],
              !.exit = 0, !.returned = TRUE]

\* One pass of the loop of block delete: the identifier is resolved, the
\* DELETE is sent, a failure goes to standard error and the loop goes on.
blockDeletePass(l, id, deleteFails) ==
    LET pass(blockID) ==
            IF deleteFails
            THEN [l EXCEPT !.i = @ + 1,
                           !.requests = Append(@, Sent(Lit.DELETE, Lit.v1_blocks \o blockID, JNil)),
                           !.stderr = Append(@, [failed |-> blockID])]
            ELSE [l EXCEPT !.i = @ + 1,
                           !.requests = Append(@, Sent(Lit.DELETE, Lit.v1_blocks \o blockID, JNil)),
                           !.deleted = @ + 1]
    IN  pass(ResolveID(id))

\* The end of block delete: the count unless the output is JSON.
blockDeleteReport(l, outputFormat) ==
    [l EXCEPT !.stdout = IF outputFormat # Lit.json THEN <<[deleted |-> l.deleted]>> ELSE <<>>,
              !.exit = 0]

(***************************************************************************)
(* Property-typed writes: db add (cmd/db.go), page set and page create     *)
(* --db (cmd/page.go).  The three share the loop over the key=value        *)
(* arguments; they differ in the GET, in the request that writes and in    *)
(* what page create adds to the body.                                      *)
(***************************************************************************)
ErrInvalidFormat == "invalid property format, expected key=value"

\* The command up to the loop: the identifier is resolved and the schema
\* (the page, for page set) is fetched.
propertyWriteStart(command, id0, getFails) ==
    LET l == [k |-> 0, properties |-> EmptyMap, requests |-> <<>>, err |-> ErrNone,
              exit |-> -1, returned |-> FALSE]
        get(id) == Sent(Lit.GET,
                        (IF command = "pageSet" THEN Lit.v1_pages_slash ELSE Lit.v1_databases)
                        \o id, JNil)
    IN  IF getFails
        THEN [l EXCEPT !.requests = <<get(ResolveID(id0))>>, !.err = ErrRequest, !.exit = 1,
                       !.returned = TRUE]
        ELSE [l EXCEPT !.requests = <<get(ResolveID(id0))>>]

\* One pass of the loop that skips a key the schema does not have.
propertyWriteParse_SkipsUnknown(l, kv, props) ==
    LET parse(parts) ==
            IF Len(parts) # 2
            THEN [l EXCEPT !.err = ErrInvalidFormat, !.exit = 1, !.returned = TRUE]
            ELSE IF ~IsMap(Get(props, parts[1]))
            THEN [l EXCEPT !.k = @ + 1]
            ELSE [l EXCEPT !.k = @ + 1,
                           !.properties =
                               (parts[1] :> buildPropertyValue(
                                                StringOf(Get(Val(props[parts[1]]), Lit.type)),
                                                parts[2]))
                               @@ @]
    IN  parse(SplitN(kv, <<"=">>, 2))

\* One pass of the loop over the key=value arguments: the argument is
\* split at its first '=', the key is looked up and the value is built; an
\* argument without '=' and a key that is not there end the command.
propertyWriteParse(l, kv, props) ==
    LET parse(parts) ==
            IF Len(parts) # 2
            THEN [l EXCEPT !.err = ErrInvalidFormat, !.exit = 1, !.returned = TRUE]
            ELSE IF ~IsMap(Get(props, parts[1]))
            THEN [l EXCEPT !.err = ErrNotFound, !.exit = 1, !.returned = TRUE]
            ELSE [l EXCEPT !.k = @ + 1,
                           !.properties =
                               (parts[1] :> buildPropertyValue(
                                                StringOf(Get(Val(props[parts[1]]), Lit.type)),
                                                parts[2]))
                               @@ @]
    IN  parse(SplitN(kv, <<"=">>, 2))

\* The names of the title properties of a schema.
TitleNames(props) ==
    {name \in DOMAIN props :
        IsMap(props[name]) /\ StringOf(Get(Val(props[name]), Lit.type)) = Lit.title}

\* The request that writes, after the loop.  page create sets the first
\* title property the range over the schema meets (name) when --title is
\* given, and adds a paragraph when --body is given.
propertyWriteSend(l, command, id0, title, text, name, writeFails) ==
    LET titled ==
            IF command = "pageCreateDb" /\ title # <<>> /\ name # <<>>
            THEN (name :> buildPropertyValue(Lit.title, title)) @@ l.properties
            ELSE l.properties
        children ==
            IF command = "pageCreateDb" /\ text # <<>>
            THEN Lit.children :> JMapList(<<(Lit.object :> JStr(Lit.block))
                                            @@ (Lit.type :> JStr(Lit.paragraph))
                                            @@ (Lit.paragraph :> JMap(Lit.rich_text :> TextRun(text)))>>)
            ELSE EmptyMap
        request(id) ==
            IF command = "pageSet"
            THEN Sent(Lit.PATCH, Lit.v1_pages_slash \o id,
                      JMap(Lit.properties :> JMap(titled)))
            ELSE Sent(Lit.POST, Lit.v1_pages,
                      JMap((Lit.parent :> JMap(Lit.database_id :> JStr(id)))
                           @@ (Lit.properties :> JMap(titled)) @@ children))
    IN  IF writeFails
        THEN [l EXCEPT !.requests = Append(@, request(ResolveID(id0))), !.properties = titled,
                       !.err = ErrRequest, !.exit = 1, !.returned = TRUE]
        ELSE [l EXCEPT !.requests = Append(@, request(ResolveID(id0))), !.properties = titled,
                       !.exit = 0, !.returned = TRUE]

(***************************************************************************)
(* cmd/api.go: the raw request                                             *)
(***************************************************************************)
ErrInvalidJSON == "invalid JSON body"

\* strings.ToUpper on ASCII text.
ToUpper(s) ==
    [i \in 1..Len(s) |->
        IF \E k \in 1..Len(LowerCase) : LowerCase[k] = s[i]
        THEN UpperCase[CHOOSE k \in 1..Len(LowerCase) : LowerCase[k] = s[i]]
        ELSE s[i]]

\* json.Unmarshal into an interface{} for the texts "{}" and "[]"; every
\* other text of the model is not JSON.
Unmarshal(s) ==
    IF s = <<"{", "}">> THEN [err |-> FALSE, v |-> JMap(EmptyMap)]
    ELSE IF s = <<"[", "]">> THEN [err |-> FALSE, v |-> JList(<<>>)]
    ELSE [err |-> TRUE, v |-> JNil]

\* c.do: the request reaches the remote, which fails it or not.
Do(l, request, fails) ==
    [l EXCEPT !.requests = Append(@, request),
              !.err = IF (Len(l.requests) + 1) \in fails THEN ErrRequest ELSE ErrNone]

\* RunE of the api command: the method in upper case, the path with a
\* leading '/', the body from --body or from a piped standard input, and
\* then the requests.  With a body the POST is sent first and the PATCH
\* after it when the method is PATCH.
apiCmd(method0, path0, bodyFlag, stdin, fails) ==
    LET l == [requests |-> <<>>, err |-> ErrNone]
        method == ToUpper(method0)
        path == IF HasPrefix(path0, <<"/">>) THEN path0 ELSE <<"/">> \o path0
        bodyStr ==
            IF bodyFlag = <<>> /\ method \in {Lit.POST, Lit.PATCH, Lit.PUT}
               /\ ~stdin.charDevice /\ Len(stdin.data) > 0
            THEN stdin.data ELSE bodyFlag
        withBody(body) ==
            IF body.err THEN [l EXCEPT !.err = ErrInvalidJSON]
            ELSE IF method = Lit.PATCH
            THEN Do(Do(l, Sent(Lit.POST, path, body.v), fails),
                    Sent(Lit.PATCH, path, body.v), fails)
            ELSE Do(l, Sent(Lit.POST, path, body.v), fails)
    IN  IF bodyStr # <<>> THEN withBody(Unmarshal(bodyStr))
        ELSE IF method = Lit.GET THEN Do(l, Sent(Lit.GET, path, JNil), fails)
        ELSE IF method = Lit.DELETE THEN Do(l, Sent(Lit.DELETE, path, JNil), fails)
        ELSE Do(l, Sent(Lit.POST, path, JNil), fails)

(***************************************************************************)
(* internal/config/config.go and the commands of cmd/auth.go that use it.  *)
(* The credential file is its permission bits and its JSON object; a mode  *)
(* is the set of its bits.                                                 *)
(***************************************************************************)
ErrNoToken == "no token provided"
ErrNotAuthenticated == "not authenticated"
ErrMkdir == "mkdir failed"
ErrPermission == "permission denied"

PermBits == {"ur", "uw", "ux", "gr", "gw", "gx", "or", "ow", "ox"}
\* 0600 and 0077
Perm0600 == {"ur", "uw"}
Perm0077 == {"gr", "gw", "gx", "or", "ow", "ox"}

NoFile == [exists |-> FALSE, mode |-> {}, data |-> EmptyMap]

\* type Config, and the zero value &config.Config{}.
Config(token, workspaceName, workspaceID, botID) ==
    [Token |-> token, WorkspaceName |-> workspaceName, WorkspaceID |-> workspaceID,
     BotID |-> botID]
ZeroConfig == Config(<<>>, <<>>, <<>>, <<>>)

\* json.MarshalIndent of a Config: token always, the other fields unless
\* empty (omitempty).
Marshal(cfg) ==
    (Lit.token :> JStr(cfg.Token))
    @@ (IF cfg.WorkspaceName # <<>> THEN Lit.workspace_name :> JStr(cfg.WorkspaceName)
        ELSE EmptyMap)
    @@ (IF cfg.WorkspaceID # <<>> THEN Lit.workspace_id :> JStr(cfg.WorkspaceID) ELSE EmptyMap)
    @@ (IF cfg.BotID # <<>> THEN Lit.bot_id :> JStr(cfg.BotID) ELSE EmptyMap)

\* config.Load: the file read and decoded, or the zero Config and an error.
Load(file) ==
    IF ~file.exists \/ "ur" \notin file.mode
    THEN [err |-> ErrPermission, cfg |-> ZeroConfig]
    ELSE [err |-> ErrNone,
          cfg |-> Config(StringOf(Get(file.data, Lit.token)),
                         StringOf(Get(file.data, Lit.workspace_name)),
                         StringOf(Get(file.data, Lit.workspace_id)),
                         StringOf(Get(file.data, Lit.bot_id)))]

\* config.Save: MkdirAll, then os.WriteFile(path, data, 0600).  WriteFile
\* opens with O_WRONLY|O_CREATE|O_TRUNC: the mode 0600 less the umask is
\* given to a file it creates, a file that exists keeps its mode and must
\* be writable by its owner.
Save(file, cfg, umask, mkdirFails) ==
    IF mkdirFails THEN [err |-> ErrMkdir, file |-> file]
    ELSE IF file.exists /\ "uw" \notin file.mode THEN [err |-> ErrPermission, file |-> file]
    ELSE [err |-> ErrNone,
          file |-> [exists |-> TRUE,
                    mode |-> IF file.exists THEN file.mode ELSE Perm0600 \ umask,
                    data |-> Marshal(cfg)]]

\* getToken: NOTION_TOKEN first, then the token of the credential file.
getToken(env, file) ==
    LET token(loaded) ==
            IF loaded.err = ErrNone /\ loaded.cfg.Token # <<>>
            THEN [err |-> ErrNone, token |-> loaded.cfg.Token]
            ELSE [err |-> ErrNotAuthenticated, token |-> <<>>]
    IN  IF env # <<>> THEN [err |-> ErrNone, token |-> env] ELSE token(Load(file))

\* What a command leaves behind: the file, and what it did.
Ran(command, file, token, requests, saved, err) ==
    [command |-> command, file |-> file, token |-> token, requests |-> requests,
     saved |-> saved, err |-> err, exit |-> IF err = ErrNone THEN 0 ELSE 1]

\* auth login that saves the token before the remote has seen it.
authLoginCmd_SavesFirst(file, line, me, umask, mkdirFails) ==
    LET token == TrimSpace(line)
        bot == Get(me.body, Lit.bot)
        botInfo == IF IsMap(bot) THEN Val(bot) ELSE EmptyMap
        cfg == Config(token, StringOf(Get(botInfo, Lit.workspace_name)),
                      StringOf(Get(botInfo, Lit.workspace_id)), StringOf(Get(me.body, Lit.id)))
        save(saved) ==
            IF me.err # ErrNone
            THEN Ran("authLoginCmd", saved.file, token, <<"GetMe">>, saved.err = ErrNone, me.err)
            ELSE Ran("authLoginCmd", saved.file, token, <<"GetMe">>, saved.err = ErrNone, saved.err)
    IN  IF token = <<>> THEN Ran("authLoginCmd", file, token, <<>>, FALSE, ErrNoToken)
        ELSE save(Save(file, cfg, umask, mkdirFails))

\* auth login: the token is the trimmed line of standard input; GetMe
\* validates it, and only then the Config is built and saved.  me is what
\* the remote answers to GetMe.
authLoginCmd(file, line, me, umask, mkdirFails) ==
    LET token == TrimSpace(line)
        bot == Get(me.body, Lit.bot)
        botInfo == IF IsMap(bot) THEN Val(bot) ELSE EmptyMap
        cfg == Config(token, StringOf(Get(botInfo, Lit.workspace_name)),
                      StringOf(Get(botInfo, Lit.workspace_id)), StringOf(Get(me.body, Lit.id)))
        save(saved) ==
            Ran("authLoginCmd", saved.file, token, <<"GetMe">>, saved.err = ErrNone, saved.err)
    IN  IF token = <<>> THEN Ran("authLoginCmd", file, token, <<>>, FALSE, ErrNoToken)
        ELSE IF me.err # ErrNone
        THEN Ran("authLoginCmd", file, token, <<"GetMe">>, FALSE, me.err)
        ELSE save(Save(file, cfg, umask, mkdirFails))

\* auth logout: the zero Config is saved.
authLogoutCmd(file, umask, mkdirFails) ==
    LET save(saved) ==
            Ran("authLogoutCmd", saved.file, <<>>, <<>>, saved.err = ErrNone, saved.err)
    IN  save(Save(file, ZeroConfig, umask, mkdirFails))

\* auth status: without a token a line and nil, otherwise GetMe.
authStatusCmd(file, env, me) ==
    LET status(t) ==
            IF t.err # ErrNone THEN Ran("authStatusCmd", file, <<>>, <<>>, FALSE, ErrNone)
            ELSE Ran("authStatusCmd", file, t.token, <<"GetMe">>, FALSE, me.err)
    IN  status(getToken(env, file))

(***************************************************************************)
(* cmd/db.go: db query as a command                                        *)
(***************************************************************************)
\* RunE of db query: the schema, the body from --filter, --sort and
\* --limit, the query, and what is shown.  The flag --cursor is declared
\* (cursor is its value) and RunE never reads it.  source is the pages
\* the remote holds; the remote serves the page the start_cursor of the
\* body stands for.
dbQueryRun(dbID0, filters, sorts, limit, cursor, dbProps, source, outputFormat) ==
    LET l == [requests |-> <<>>, body |-> EmptyMap, shown |-> <<>>, hint |-> <<>>,
              err |-> ErrNone]
        get(id) == Sent(Lit.GET, Lit.v1_databases \o id, JNil)
        post(id, body) == Sent(Lit.POST, Lit.v1_databases \o id \o Lit.slash_query, JMap(body))
        show(page) ==
            IF outputFormat # Lit.json /\ Len(ListOf(Get(page, Lit.results))) > 0
               /\ BoolOf(Get(page, Lit.has_more))
            THEN StringOf(Get(page, Lit.next_cursor)) ELSE <<>>
        run(id, built) ==
            IF built.err # ErrNone
            THEN [l EXCEPT !.requests = <<get(id)>>, !.err = built.err]
            ELSE [l EXCEPT
                    !.requests = <<get(id), post(id, built.body)>>,
                    !.body = built.body,
                    !.shown = ListOf(Get(source[PageOf(source,
                                  StringOf(Get(built.body, Lit.start_cursor)))], Lit.results)),
                    !.hint = show(source[PageOf(source,
                                  StringOf(Get(built.body, Lit.start_cursor)))])]
    IN  run(ResolveID(dbID0), dbQueryBody(filters, sorts, limit, dbProps))

(***************************************************************************)
(* cmd/page.go: page link and page unlink                                  *)
(***************************************************************************)
ErrNoProperty == "property not found"

\* A []map[string]interface{} as it is marshalled: a nil slice, to which
\* nothing was appended, is null; any other slice is a list.
Slice0(maps) == IF maps = <<>> THEN JNil ELSE JMapList(maps)

\* The maps among the entries of propData["relation"], in order.
RECURSIVE Existing(_)
Existing(entries) ==
    IF entries = <<>> THEN <<>>
    ELSE (IF IsMap(Head(entries)) THEN <<Val(Head(entries))>> ELSE <<>>)
         \o Existing(Tail(entries))

\* The entries whose id is not fromID, in order.
RECURSIVE Without(_, _)
Without(maps, fromID) ==
    IF maps = <<>> THEN <<>>
    ELSE (IF StringOf(Get(Head(maps), Lit.id)) # fromID THEN <<Head(maps)>> ELSE <<>>)
         \o Without(Tail(maps), fromID)

\* The property --prop names on the page, nil when the page has none.
propDataOf(page, propName) ==
    IF IsMap(Get(page, Lit.properties)) THEN Get(Val(page[Lit.properties]), propName) ELSE JNil

\* The maps of the relation list the page holds under the property.
existingOf(page, propName) ==
    IF IsMap(propDataOf(page, propName))
    THEN Existing(ListOf(Get(Val(propDataOf(page, propName)), Lit.relation)))
    ELSE <<>>

\* What page link and page unlink share: the page is fetched, the property
\* is looked up, and the new relation list, relations, is patched.  base is
\* the number of requests made before, fails the requests the remote fails.
relationPatch(pageID0, propName, page, base, fails, relations) ==
    LET l == [requests |-> <<>>, sent |-> JNil, err |-> ErrNone, patched |-> FALSE]
        get(id) == Sent(Lit.GET, Lit.v1_pages_slash \o id, JNil)
        patch(id) ==
            Sent(Lit.PATCH, Lit.v1_pages_slash \o id,
                 JMap(Lit.properties :> JMap(propName :> JMap(Lit.relation :> relations))))
        build(id) ==
            IF ~IsMap(propDataOf(page, propName))
            THEN [l EXCEPT !.requests = <<get(id)>>, !.err = ErrNoProperty]
            ELSE [l EXCEPT
                    !.requests = <<get(id), patch(id)>>,
                    !.sent = relations,
                    !.err = IF (base + 2) \in fails THEN ErrRequest ELSE ErrNone,
                    !.patched = (base + 2) \notin fails]
    IN  IF (base + 1) \in fails
        THEN [l EXCEPT !.requests = <<get(ResolveID(pageID0))>>, !.err = ErrRequest]
        ELSE build(ResolveID(pageID0))

\* page link: the current entries, then the target.
pageLinkCmd(pageID0, propName, toID0, page, base, fails) ==
    relationPatch(pageID0, propName, page, base, fails,
                  Slice0(existingOf(page, propName) \o <<Lit.id :> JStr(ResolveID(toID0))>>))

\* page unlink: the current entries without those of the target.
pageUnlinkCmd(pageID0, propName, fromID0, page, base, fails) ==
    relationPatch(pageID0, propName, page, base, fails,
                  Slice0(Without(existingOf(page, propName), ResolveID(fromID0))))

(***************************************************************************)
(* Arguments of ResolveID                                                  *)
(***************************************************************************)
\* The identifier of the repository's own test, and a second one.
IdTest == <<"c", "9", "e", "9", "f", "6", "8", "1", "e", "c", "8", "e",
            "4", "e", "b", "7", "b", "e", "2", "5", "b", "b", "b", "e",
            "4", "7", "9", "b", "0", "5", "b", "0">>
IdOther == [i \in 1..32 |-> IF i % 3 = 0 THEN "0" ELSE IF i % 3 = 1 THEN "d" ELSE "7"]
Ids == {IdTest, IdOther}

\* The claims' own notion of the canonical form: '-' after characters 8, 12, 16, 20.
Dashed(s) ==
    SubSeq(s, 1, 8) \o <<"-">> \o SubSeq(s, 9, 12) \o <<"-">> \o SubSeq(s, 13, 16)
    \o <<"-">> \o SubSeq(s, 17, 20) \o <<"-">> \o SubSeq(s, 21, 32)

SeqsUpTo(S, n) == UNION {[1..k -> S] : k \in 0..n}

SlugChars == {"a", "-", "M"}
\* Every short slug over SlugChars, the slug of the repository's test and the
\* slug of a page whose title ends in a year.
Slugs == SeqsUpTo(SlugChars, MaxSlugLen)
         \cup {<<"M", "y", "-", "P", "a", "g", "e", "-">>,
               <<"P", "l", "a", "n", "-", "2", "0", "2", "4", "-">>}

Scheme == <<"h", "t", "t", "p", "s", ":", "/", "/">>
Hosts == {<<"w", "w", "w", ".">> \o HostSo, <<"x", ".">> \o HostSite}
Workspaces == {<<>>, <<"t", "e", "a", "m", "/">>}
Queries == {<<>>, <<"?", "v", "=", "a", "b", "c", "1", "2", "3">>}
LeftPads == {<<>>, <<" ">>}
RightPads == {<<>>, <<"\n">>}

\* Links whose last path segment is slug + identifier, with an optional query.
UrlArgs ==
    {[kind |-> "url", id |-> id, slug |-> slug,
      input |-> Scheme \o h \o <<"/">> \o w \o slug \o id \o q] :
        id \in Ids, slug \in Slugs, h \in Hosts, w \in Workspaces, q \in Queries}

\* Bare identifiers: 32 hex characters, and the same with dashes.
IdArgs ==
    {[kind |-> "plain32", id |-> id, slug |-> <<>>, input |-> id] : id \in Ids}
    \cup {[kind |-> "dashed36", id |-> id, slug |-> <<>>, input |-> Dashed(id)] : id \in Ids}

\* Everything else: short strings, the empty string, wrong alphabets and
\* lengths, links without an identifier, with and without whitespace around.
OtherBodies ==
    {<<>>, <<"a", "b", "c", "1", "2", "3">>, <<"a", " ", "b">>,
     SubSeq(IdTest, 1, 31), IdTest \o <<"0">>,
     [i \in 1..32 |-> "A"], [i \in 1..32 |-> "g"],
     Scheme \o HostSo \o <<"/", "M", "y", "-", "P", "a", "g", "e">>,
     HostSo, HostSite \o <<"/">>}

OtherArgs ==
    {[kind |-> "other", id |-> <<>>, slug |-> <<>>, input |-> l \o b \o r] :
        l \in LeftPads, b \in OtherBodies \cup SeqsUpTo({"z", " "}, MaxValLen), r \in RightPads}
    \cup {[kind |-> "padded", id |-> a.id, slug |-> a.slug, input |-> l \o a.input \o r] :
        l \in LeftPads, a \in IdArgs, r \in RightPads}

ResolveArgs == UrlArgs \cup IdArgs \cup OtherArgs

(***************************************************************************)
(* Arguments of the property codec                                         *)
(***************************************************************************)
KnownTypes ==
    {Lit.title, Lit.rich_text, Lit.number, Lit.select, Lit.multi_select, Lit.status,
     Lit.date, Lit.checkbox, Lit.url, Lit.email, Lit.phone_number}

\* Every tag the encoder knows, tags only the decoder knows, an unknown tag
\* and the empty tag.
TypeTags == KnownTypes \cup {Lit.people, Lit.formula, Lit.unknown_type, <<>>}

ValueChars == {"a", "1", ",", " "}

Values ==
    SeqsUpTo(ValueChars, MaxValLen)
    \cup {Lit.true, Lit.yes, Lit.false, <<"0">>, <<"n", "o">>,
          <<"T", "r", "u", "e">>, <<"Y", "E", "S">>, <<" ", "t", "r", "u", "e">>,
          <<"4", "2">>, <<"1", ".", "5", "0">>, <<"-", "3">>,
          <<"a", ",", " ", "b", " ", ",", "c">>,
          <<"t", "a", "g", "1", ",", "t", "a", "g", "2", ",", "t", "a", "g", "3">>,
          <<"2", "0", "2", "6", "-", "0", "2", "-", "1", "9">>}

BuildArgs == [propType : TypeTags, value : Values]

\* What the remote hands back for a value it was sent: the payload under
\* its key plus the type tag, lists decoded as []interface{}.
RECURSIVE Decoded(_)
Decoded(x) ==
    CASE Kind(x) = "map[string]interface{}" -> JMap([key \in DOMAIN Val(x) |-> Decoded(Val(x)[key])])
      [] Kind(x) = "[]map[string]interface{}" -> JList([i \in 1..Len(Val(x)) |-> Decoded(JMap(Val(x)[i]))])
      [] Kind(x) = "[]interface{}" -> JList([i \in 1..Len(Val(x)) |-> Decoded(Val(x)[i])])
      [] OTHER -> x

Tagged(propType, built) == (Lit.type :> JStr(propType)) @@ Val(Decoded(built))

DateValues ==
    {JNil,
     JMap(Lit.start :> JStr(<<"2", "0", "2", "6">>) @@ Lit.end :> JNil),
     JMap(Lit.start :> JStr(<<"2", "0", "2", "6">>) @@ Lit.end :> JStr(<<"2", "0", "2", "7">>))}

\* The typed results a formula or a rollup carries: {type: T, T: value},
\* the value possibly null, and a result without its payload.
NestedResults ==
    {(Lit.type :> JStr(Lit.string)) @@ (Lit.string :> x) :
        x \in {JNil} \cup {JStr(v) : v \in SeqsUpTo({"a", " "}, MaxValLen)}}
    \cup {(Lit.type :> JStr(Lit.boolean)) @@ (Lit.boolean :> x) :
        x \in {JNil, JBool(TRUE), JBool(FALSE)}}
    \cup {(Lit.type :> JStr(Lit.number)) @@ (Lit.number :> x) :
        x \in {JNil} \cup {JFloat(ParseFloat(v).f) : v \in {<<"4", "2">>, <<"1", ".", "5">>}}}
    \cup {(Lit.type :> JStr(Lit.date)) @@ (Lit.date :> x) : x \in DateValues}
    \cup {(Lit.type :> JStr(Lit.string)), EmptyMap}

ComputedProps ==
    {(Lit.type :> JStr(t)) @@ (t :> JMap(r)) : t \in {Lit.formula, Lit.rollup}, r \in NestedResults}
    \cup {(Lit.type :> JStr(t)) @@ (t :> JNil) : t \in {Lit.formula, Lit.rollup}}
    \cup {(Lit.type :> JStr(t)) : t \in {Lit.formula, Lit.rollup}}

\* Properties as the remote returns them: what the encoder built, tagged;
\* date and checkbox payloads; formula and rollup results.
ExtractArgs ==
    {[prop |-> Tagged(a.propType, buildPropertyValue(a.propType, a.value))] : a \in BuildArgs}
    \cup {[prop |-> (Lit.type :> JStr(Lit.date)) @@ (Lit.date :> d)] : d \in DateValues}
    \cup {[prop |-> (Lit.type :> JStr(Lit.checkbox)) @@ (Lit.checkbox :> b)] :
            b \in {JNil, JBool(TRUE), JBool(FALSE)}}
    \cup {[prop |-> p] : p \in ComputedProps}

(***************************************************************************)
(* Arguments of the filter compiler                                        *)
(***************************************************************************)
PropDef(t) == JMap(Lit.type :> JStr(t))

\* The schema of the repository's test, text properties of every kind, a
\* property of a type the compiler does not know and one whose name ends
\* with a space.
TestSchema ==
    (<<"S", "t", "a", "t", "u", "s">> :> PropDef(Lit.select))
    @@ (<<"N", "a", "m", "e">> :> PropDef(Lit.title))
    @@ (<<"D", "a", "t", "e">> :> PropDef(Lit.date))
    @@ (Lit.Count :> PropDef(Lit.number))
    @@ (<<"T", "a", "g", "s">> :> PropDef(Lit.multi_select))
    @@ (Lit.Done :> PropDef(Lit.checkbox))
    @@ (<<"P", "r", "i", "o", "r", "i", "t", "y">> :> PropDef(Lit.status))
    @@ (<<"W", "e", "b", "s", "i", "t", "e">> :> PropDef(Lit.url))
    @@ (<<"N", "o", "t", "e", "s">> :> PropDef(Lit.rich_text))
    @@ (<<"E", "m", "a", "i", "l">> :> PropDef(Lit.email))
    @@ (<<"P", "h", "o", "n", "e">> :> PropDef(Lit.phone_number))
    @@ (<<"O", "w", "n", "e", "r">> :> PropDef(Lit.people))
    @@ (<<"D", "u", "e", " ">> :> PropDef(Lit.date))

\* The test's schema and a database without properties.
Schemas == {TestSchema, EmptyMap}

OperatorTokens == {operators[i].op : i \in 1..Len(operators)}
OperatorChars == {"=", "!", "~", "<", ">"}

FilterValues ==
    SeqsUpTo({"x", "1", " "}, MaxValLen)
    \cup {<<"1", "0">>, <<"1", "0", ".", "0">>, Lit.Done, Lit.true, Lit.yes,
          <<"2", "0", "2", "6", "-", "0", "1", "-", "0", "1">>,
          <<"a", ">", "b">>, <<"<", "1">>, <<"=">>}

\* Left-hand sides: every name of the schema, the same followed by a blank,
\* and names the schema does not have.
FilterNames ==
    DOMAIN TestSchema
    \cup {n \o <<" ">> : n \in DOMAIN TestSchema}
    \cup {<<"B", "o", "g", "u", "s">>, <<>>}

\* An expression is lhs, operator, rhs; op = <<>> is an expression without
\* any operator.
ParseArgs ==
    {[expr |-> l \o op \o r, dbProps |-> sch, lhs |-> l, op |-> op, rhs |-> r] :
        l \in FilterNames, op \in OperatorTokens \cup {<<>>},
        r \in FilterValues, sch \in Schemas}

GenericOps == {operators[i].notion : i \in 1..Len(operators)}

FilterArgs ==
    [propName : {Lit.Done}, propType : TypeTags \cup {Lit.created_time, Lit.last_edited_time},
     op : GenericOps, value : Values]

(***************************************************************************)
(* Arguments of parseSort                                                  *)
(***************************************************************************)
\* Property names: none holds a ':'.
SortNames ==
    SeqsUpTo({"a", " "}, MaxValLen)
    \cup {<<"D", "a", "t", "e">>, <<" ", "N", "a", "m", "e", " ">>, <<"D", "u", "e", " ">>}

\* Directions that spell desc or descending in some case, bare or padded.
DescendingWords ==
    {Lit.desc, Lit.descending, <<"D", "E", "S", "C">>, <<"D", "e", "s", "c">>,
     <<"D", "E", "S", "C", "E", "N", "D", "I", "N", "G">>,
     <<"D", "e", "S", "c", "E", "n", "D", "i", "N", "g">>,
     <<" ", "d", "e", "s", "c", " ">>, <<"\t", "D", "e", "s", "c", "\n">>}

\* Every other direction: ascending words, the empty text, near misses and
\* texts with a second ':'.
OtherWords ==
    SeqsUpTo({"a", ":"}, MaxValLen)
    \cup {Lit.asc, Lit.ascending, <<"A", "S", "C">>, <<"d", "e", "s">>,
          <<"d", "e", "s", "c", "e", "n", "d">>, <<"d", "e", "s", "c", "x">>,
          <<"d", " ", "e", "s", "c">>, <<"d", "e", "s", "c", ":", "x">>,
          <<":", "d", "e", "s", "c">>, <<"u", "p">>}

SortArgs ==
    {[expr |-> n, name |-> n, colon |-> FALSE, dir |-> <<>>, desc |-> FALSE] : n \in SortNames}
    \cup {[expr |-> n \o <<":">> \o d, name |-> n, colon |-> TRUE, dir |-> d,
           desc |-> d \in DescendingWords] :
            n \in SortNames, d \in DescendingWords \cup OtherWords}

(***************************************************************************)
(* Arguments of db query                                                   *)
(***************************************************************************)
\* Expressions that compile against the test's schema to different
\* conditions, one with an unknown property and one without an operator.
QueryFilters ==
    {<<"S", "t", "a", "t", "u", "s", "=", "D", "o", "n", "e">>,
     Lit.Count \o <<">", "=", "1", "0">>,
     Lit.Done \o <<"=">> \o Lit.true,
     <<"B", "o", "g", "u", "s", "=", "1">>,
     <<"S", "t", "a", "t", "u", "s", "D", "o", "n", "e">>}

QuerySorts ==
    {<<>>, << <<"D", "a", "t", "e", ":", "d", "e", "s", "c">> >>,
     << <<"N", "a", "m", "e">>, <<"D", "a", "t", "e", ":", "d", "e", "s", "c">> >>}

QueryArgs ==
    [filters : SeqsUpTo(QueryFilters, MaxFilters), sorts : QuerySorts,
     limit : {0, 5}, dbProps : {TestSchema}]

(***************************************************************************)
(* Arguments of parseMarkdownToBlocks                                      *)
(***************************************************************************)
\* Lines of every kind the parser tells apart; a numbered item of five
\* characters and a bare year among them.
CoreLines ==
    {<<>>, Fence, Fence \o <<" ", "g", "o">>, <<"#", " ", "H">>,
     <<"-", " ", "[", "x", "]", " ", "t">>, <<"-", " ", "b">>,
     <<"1", ".", " ", "a", "b">>, <<"2", "0", "2", "4">>, <<"p", " ", "q">>,
     <<"-", "-", "-">>}

MoreLines ==
    {<<" ">>, <<"\t", "\r">>, <<"#", "#", " ", "H">>, <<"#", "#", "#", " ", "H">>,
     <<"#", "H">>, <<" ", "#", " ", "H">>,
     <<"-", " ", "[", " ", "]", " ", "t">>, <<"-", " ", "[", "X", "]", " ", "t">>,
     <<"-", " ", "[", " ", "]", "t">>, <<"*", " ", "b">>, <<"-", "b">>,
     <<"1", "2", ".", " ", "n">>, <<"1", ".", " ", " ", "n">>, <<"1", ".", " ", "n">>,
     <<"1", ".", " ">>, <<"7", "4", "7">>, <<"4", "2">>, <<"7">>,
     <<"2", "0", "2", "4", " ", "p", "l", "a", "n">>,
     <<"1", "0", "0", "0", "0", ".", " ", "n">>, <<"3", ".", "1", "4", " ", "i", "s">>,
     <<"a", ".", " ", "b">>,
     <<">", " ", "q">>, <<">", "q">>, <<"*", "*", "*">>, <<"_", "_", "_">>,
     <<"-", "-", "-", " ">>, <<"-", "-", "-", "-">>,
     <<" ", "p", " ">>, Fence \o <<"g", "o">>, <<" ">> \o Fence,
     <<Backtick, Backtick>>}

\* The content is the lines joined by newlines; no line holds a newline.
MdArgs ==
    {[content |-> Join(ls, <<"\n">>), lines |-> ls] :
        ls \in SeqsUpTo(CoreLines, MaxLines) \cup SeqsUpTo(CoreLines \cup MoreLines, 2)}

(***************************************************************************)
(* Arguments of the pagination loops                                       *)
(***************************************************************************)
DigitChars == <<"1", "2", "3", "4", "5", "6", "7", "8", "9">>

\* The kth item of page p, and the cursor page p hands out.
Item(p, k) == JMap(Lit.id :> JStr(<<"b", DigitChars[p], DigitChars[k]>>))
Cursor(p) == <<"c", DigitChars[p]>>

\* Page p of n with count items: every page but the last has more and a
\* cursor, the last has neither.
Page(p, n, count) ==
    (Lit.results :> JList([k \in 1..count |-> Item(p, k)]))
    @@ (Lit.has_more :> JBool(p < n))
    @@ (Lit.next_cursor :> (IF p < n THEN JStr(Cursor(p)) ELSE JNil))

\* Every source of 1..MaxPages pages of 0, 1 or 2 items.
Sources ==
    UNION {{[p \in 1..n |-> Page(p, n, count[p])] : count \in [1..n -> 0..2]} :
              n \in 1..MaxPages}

\* The remote fails the failAt-th request; 0 is a remote that never fails.
PageArgs ==
    {[remote |-> [source |-> s, failAt |-> k], cursor |-> c, all |-> a, outputFormat |-> f] :
        s \in Sources, k \in 0..MaxPages, c \in {<<>>, <<"c", "0">>},
        a \in BOOLEAN, f \in {Lit.table}}

SearchArgs ==
    {[remote |-> [source |-> s, failAt |-> k], cursor |-> c, all |-> a, outputFormat |-> f] :
        s \in Sources, k \in 0..MaxPages, c \in {<<>>},
        a \in BOOLEAN, f \in {Lit.table, Lit.json}}

\* A page that has more and hands out no cursor: next_cursor null or empty.
PageWithoutCursor(p, count, cursor) ==
    (Lit.results :> JList([k \in 1..count |-> Item(p, k)]))
    @@ (Lit.has_more :> JBool(TRUE))
    @@ (Lit.next_cursor :> cursor)

\* Sources of one or two pages whose last page has more and no cursor.
SourcesWithoutCursor ==
    UNION {{<<PageWithoutCursor(1, count, c)>>,
            <<Page(1, 2, count), PageWithoutCursor(2, 1, c)>>} :
              count \in 0..1, c \in {JNil, JStr(<<>>)}}

CursorlessArgs ==
    {[remote |-> [source |-> s, failAt |-> k], cursor |-> c, all |-> a, outputFormat |-> f] :
        s \in SourcesWithoutCursor, k \in {0, 3}, c \in {<<>>, <<"c", "0">>},
        a \in BOOLEAN, f \in {Lit.table}}

(***************************************************************************)
(* Arguments of the commands                                               *)
(***************************************************************************)
Scripts ==
    {[command |-> "authDoctorCmd", script |-> authDoctorCmd],
     [command |-> "dbQueryCmd", script |-> dbQueryCmd],
     [command |-> "pageViewCmd", script |-> pageViewCmd],
     [command |-> "pageSetCmd", script |-> pageSetCmd],
     [command |-> "fileUploadCmd", script |-> fileUploadCmd],
     [command |-> "userMeCmd", script |-> userMeCmd],
     [command |-> "commentAddCmd", script |-> commentAddCmd],
     [command |-> "blockGetCmd", script |-> blockGetCmd]}
    \cup {[command |-> "blockListCmd", script |-> blockListCmd(n)] : n \in 0..MaxItems}
    \cup {[command |-> "blockDeleteCmd", script |-> blockDeleteCmd(n)] : n \in 1..MaxItems}
    \cup {[command |-> "dbAddBulkCmd", script |-> dbAddBulkCmd(n)] : n \in 0..MaxItems}

\* A command, and the set of its requests that the remote fails.
ExecuteArgs ==
    UNION {{[command |-> s.command, script |-> s.script, fails |-> f] :
                f \in SUBSET (1..Len(s.script))} : s \in Scripts}

(***************************************************************************)
(* Arguments of the batch commands                                         *)
(***************************************************************************)
\* Rows of a bulk file: keys of the schema, keys it does not have, both,
\* and a row without keys.
BulkRows ==
    {EmptyMap,
     <<"N", "a", "m", "e">> :> <<"a">>,
     (<<"N", "a", "m", "e">> :> <<"a">>) @@ (Lit.Count :> <<"1">>),
     <<"B", "o", "g", "u", "s">> :> <<"x">>,
     (<<"N", "a", "m", "e">> :> <<"b">>) @@ (<<"B", "o", "g", "u", "s">> :> <<"x">>),
     (<<"B", "o", "g", "u", "s">> :> <<"x">>) @@ (<<"O", "t", "h", "e", "r">> :> <<"y">>)}

\* A file of rows, and the remote: whether the schema fetch fails and the
\* rows whose POST fails.
BulkArgs ==
    UNION {{[items |-> items, dbID |-> Dashed(IdTest), dbProps |-> TestSchema,
             outputFormat |-> f, remote |-> [schemaFails |-> sf, fails |-> fails]] :
                fails \in SUBSET (1..Len(items)), sf \in BOOLEAN, f \in {Lit.table, Lit.json}} :
              items \in SeqsUpTo(BulkRows, MaxItems)}

\* Identifiers as the user types them, with the identifier they stand for.
DeleteIds ==
    {[input |-> Scheme \o <<"w", "w", "w", ".">> \o HostSo \o <<"/">> \o IdTest,
      id |-> Dashed(IdTest)],
     [input |-> Dashed(IdOther), id |-> Dashed(IdOther)],
     [input |-> <<"a", "b", "c">>, id |-> <<"a", "b", "c">>]}

DeleteArgs ==
    UNION {{[ids |-> ids, outputFormat |-> f, remote |-> [fails |-> fails]] :
                fails \in SUBSET (1..Len(ids)), f \in {Lit.table, Lit.json}} :
              ids \in SeqsUpTo(DeleteIds, MaxItems) \ {<<>>}}

(***************************************************************************)
(* Arguments of the property-typed writes                                  *)
(***************************************************************************)
\* key=value arguments with what the claims say of them: whether the text
\* holds a '=' and whether the text before the first '=' names a property
\* of the test's schema.
KvPool ==
    {[text |-> <<"N", "a", "m", "e", "=", "a">>, hasEq |-> TRUE, known |-> TRUE],
     [text |-> Lit.Count \o <<"=", "1">>, hasEq |-> TRUE, known |-> TRUE],
     [text |-> <<"N", "a", "m", "e", "=", "a", "=", "b">>, hasEq |-> TRUE, known |-> TRUE],
     [text |-> <<"B", "o", "g", "u", "s", "=", "x">>, hasEq |-> TRUE, known |-> FALSE],
     [text |-> <<"=", "x">>, hasEq |-> TRUE, known |-> FALSE],
     [text |-> <<"N", "a", "m", "e">>, hasEq |-> FALSE, known |-> FALSE]}

\* db add and page set take at least one key=value argument, page create
\* takes any number, a --title and a --body.
WriteArgs ==
    {[command |-> c, id |-> IdTest, kvs |-> kvs, props |-> TestSchema, title |-> <<>>,
      text |-> <<>>, remote |-> [getFails |-> gf, writeFails |-> wf]] :
        c \in {"dbAdd", "pageSet"}, kvs \in SeqsUpTo(KvPool, MaxArgs) \ {<<>>},
        gf \in BOOLEAN, wf \in BOOLEAN}
    \cup {[command |-> "pageCreateDb", id |-> IdTest, kvs |-> kvs, props |-> TestSchema,
           title |-> t, text |-> b, remote |-> [getFails |-> gf, writeFails |-> wf]] :
        kvs \in SeqsUpTo(KvPool, MaxArgs), t \in {<<>>, <<"T">>}, b \in {<<>>, <<"b">>},
        gf \in BOOLEAN, wf \in BOOLEAN}

(***************************************************************************)
(* Arguments of the api command                                            *)
(***************************************************************************)
\* Methods as the user types them, with the HTTP method they name.
ApiMethods ==
    {[text |-> Lit.GET, verb |-> Lit.GET], [text |-> Lit.POST, verb |-> Lit.POST],
     [text |-> Lit.PATCH, verb |-> Lit.PATCH], [text |-> Lit.DELETE, verb |-> Lit.DELETE],
     [text |-> <<"g", "e", "t">>, verb |-> Lit.GET], [text |-> Lit.PUT, verb |-> Lit.PUT]}

\* --body absent, a JSON object, and a text that is not JSON; standard
\* input a terminal, an empty pipe, and a pipe with a JSON object.
ApiArgs ==
    {[method |-> m, path |-> p, body |-> b, stdin |-> s, fails |-> f] :
        m \in ApiMethods,
        p \in {<<"/", "v", "1", "/", "u", "s", "e", "r", "s">>, <<"v", "1", "/", "s", "e", "a", "r", "c", "h">>},
        b \in {<<>>, <<"{", "}">>, <<"{">>},
        s \in {[charDevice |-> TRUE, data |-> <<>>], [charDevice |-> FALSE, data |-> <<>>],
               [charDevice |-> FALSE, data |-> <<"{", "}">>]},
        f \in SUBSET (1..2)}

(***************************************************************************)
(* The environment of the auth commands                                    *)
(***************************************************************************)
Tokens == {<<"t", "1">>, <<"t", "2">>}
\* Lines typed or piped at the prompt: nothing, blanks, tokens with blanks.
TokenLines == {<<>>, <<" ">>, <<"t", "1">>, <<" ", "t", "2", "\n">>}

\* The answers of the remote to GetMe: the bot and its workspace, a bot
\* without workspace, and a refusal.
MeAnswers ==
    {[err |-> ErrNone,
      body |-> (Lit.id :> JStr(<<"b", "1">>))
               @@ (Lit.bot :> JMap((Lit.workspace_name :> JStr(<<"W">>))
                                   @@ (Lit.workspace_id :> JStr(<<"w", "1">>))))],
     [err |-> ErrNone, body |-> (Lit.id :> JStr(<<"b", "2">>))],
     [err |-> ErrRequest, body |-> EmptyMap]}

\* 0600, 0644, 0666, 0400 and 0640
FileModes ==
    {{"ur", "uw"}, {"ur", "uw", "gr", "or"}, {"ur", "uw", "gr", "gw", "or", "ow"}, {"ur"},
     {"ur", "uw", "gr"}}
\* 022 and 077
Umasks == {{"gw", "ow"}, Perm0077}

\* The credential file before the first command: none, or one written
\* earlier, with the mode the user or an earlier version left on it.
FilesBefore ==
    {NoFile}
    \cup {[exists |-> TRUE, mode |-> m, data |-> Marshal(cfg)] :
            m \in FileModes,
            cfg \in {ZeroConfig, Config(<<"t", "0">>, <<"W">>, <<"w", "1">>, <<"b", "1">>)}}

(***************************************************************************)
(* Arguments of db query as a command                                      *)
(***************************************************************************)
\* No cursor, the cursors the pages of the remote hand out.
DbQueryArgs ==
    {[dbID |-> IdTest, filters |-> fs, sorts |-> <<>>, limit |-> n, cursor |-> c,
      dbProps |-> TestSchema, source |-> s, outputFormat |-> f] :
        fs \in {<<>>, <<Lit.Done \o <<"=">> \o Lit.true>>, <<<<"B", "o", "g", "u", "s", "=", "1">>>>},
        n \in {0, 5}, c \in {<<>>} \cup {Cursor(p) : p \in 1..MaxPages},
        s \in Sources, f \in {Lit.table, Lit.json}}

(***************************************************************************)
(* Arguments of page link and page unlink                                  *)
(***************************************************************************)
RelationIds == {Dashed(IdTest), Dashed(IdOther), [i \in 1..36 |-> Dashed(IdTest)[37 - i]]}

\* The relation lists a page can hold: no identifier twice.
RelationLists ==
    {R \in SeqsUpTo(RelationIds, MaxItems) : \A i, j \in 1..Len(R) : R[i] = R[j] => i = j}

\* A page with the relation property Project holding R and a title.
RelationPage(R) ==
    (Lit.id :> JStr(Dashed(IdOther)))
    @@ (Lit.properties :>
          JMap((<<"P", "r", "o", "j", "e", "c", "t">> :>
                   JMap((Lit.type :> JStr(Lit.relation))
                        @@ (Lit.relation :> JList([k \in 1..Len(R) |-> JMap(Lit.id :> JStr(R[k]))]))))
               @@ (<<"N", "a", "m", "e">> :> JMap(Lit.type :> JStr(Lit.title)))))

\* The page after a PATCH of the relation list that the remote accepted.
Patched(page, propName, ran) ==
    IF ~ran.patched THEN page
    ELSE (Lit.properties :>
             JMap((propName :> JMap((Lit.type :> JStr(Lit.relation))
                                    @@ (Lit.relation :> Decoded(ran.sent))))
                  @@ Val(page[Lit.properties])))
         @@ page

\* --prop names the relation, the title or nothing on the page; the remote
\* fails at most one of the requests.
RelationArgs ==
    {[pageID |-> Dashed(IdOther), R |-> R, t |-> t, propName |-> p, page |-> RelationPage(R),
      fails |-> f] :
        R \in RelationLists, t \in RelationIds,
        p \in {<<"P", "r", "o", "j", "e", "c", "t">>, <<"N", "a", "m", "e">>,
               <<"B", "o", "g", "u", "s">>},
        f \in {{}, {1}, {2}, {3}, {4}}}

(***************************************************************************)
(* The state machine                                                       *)
(***************************************************************************)
Init ==
    /\ pc = "start"
    /\ result = <<>>
    /\ \/ cmd = "ResolveID" /\ arg \in ResolveArgs
       \/ cmd = "buildPropertyValue" /\ arg \in BuildArgs
       \/ cmd = "extractPropertyValue" /\ arg \in ExtractArgs
       \/ cmd = "buildFilter" /\ arg \in FilterArgs
       \/ cmd = "parseFilter" /\ arg \in ParseArgs
       \/ cmd = "parseSort" /\ arg \in SortArgs
       \/ cmd = "dbQuery" /\ arg \in QueryArgs
       \/ cmd = "parseMarkdownToBlocks" /\ arg \in MdArgs
       \/ cmd = "fetchBlockChildren" /\ arg \in PageArgs
       \/ cmd = "searchCmd" /\ arg \in SearchArgs
       \/ cmd \in {"fetchBlockChildren", "searchCmd"} /\ arg \in CursorlessArgs
       \/ cmd = "Execute" /\ arg \in ExecuteArgs
       \/ cmd = "dbAddBulk" /\ arg \in BulkArgs
       \/ cmd = "blockDelete" /\ arg \in DeleteArgs
       \/ cmd = "propertyWrite" /\ arg \in WriteArgs
       \/ cmd = "apiCmd" /\ arg \in ApiArgs
       \/ cmd = "dbQueryCmd" /\ arg \in DbQueryArgs
       \/ cmd \in {"pageLink", "pageUnlink"} /\ arg \in RelationArgs

CallResolveID ==
    /\ pc = "start" /\ cmd = "ResolveID"
    /\ result' = ResolveID(arg.input)
    /\ pc' = "done"
    /\ UNCHANGED <<cmd, arg>>

CallBuildPropertyValue ==
    /\ pc = "start" /\ cmd = "buildPropertyValue"
    /\ result' = buildPropertyValue(arg.propType, arg.value)
    /\ pc' = "done"
    /\ UNCHANGED <<cmd, arg>>

CallExtractPropertyValue ==
    /\ pc = "start" /\ cmd = "extractPropertyValue"
    /\ result' = extractPropertyValue(arg.prop)
    /\ pc' = "done"
    /\ UNCHANGED <<cmd, arg>>

CallBuildFilter ==
    /\ pc = "start" /\ cmd = "buildFilter"
    /\ result' = buildFilter(arg.propName, arg.propType, arg.op, arg.value)
    /\ pc' = "done"
    /\ UNCHANGED <<cmd, arg>>

CallParseFilter ==
    /\ pc = "start" /\ cmd = "parseFilter"
    /\ result' = parseFilter(arg.expr, arg.dbProps)
    /\ pc' = "done"
    /\ UNCHANGED <<cmd, arg>>

CallParseSort ==
    /\ pc = "start" /\ cmd = "parseSort"
    /\ result' = parseSort(arg.expr)
    /\ pc' = "done"
    /\ UNCHANGED <<cmd, arg>>

CallDbQueryBody ==
    /\ pc = "start" /\ cmd = "dbQuery"
    /\ result' = dbQueryBody(arg.filters, arg.sorts, arg.limit, arg.dbProps)
    /\ pc' = "done"
    /\ UNCHANGED <<cmd, arg>>

\* parseMarkdownToBlocks up to the loop: result holds the locals.
CallParseMarkdownToBlocks ==
    /\ pc = "start" /\ cmd = "parseMarkdownToBlocks"
    /\ result' = [lines |-> Split(arg.content, <<"\n">>), i |-> 0, blocks |-> <<>>]
    /\ pc' = "loop"
    /\ UNCHANGED <<cmd, arg>>

\* One iteration of the loop; a panic ends the process.
LoopParseMarkdownToBlocks ==
    /\ pc = "loop" /\ cmd = "parseMarkdownToBlocks"
    /\ result.i < Len(result.lines)
    /\ LET it == Iteration(result.lines, result.i)
       IN  /\ result' = [result EXCEPT !.i = it.i, !.blocks = @ \o it.blocks]
           /\ pc' = IF it.panic THEN "panic" ELSE "loop"
    /\ UNCHANGED <<cmd, arg>>

ReturnParseMarkdownToBlocks ==
    /\ pc = "loop" /\ cmd = "parseMarkdownToBlocks"
    /\ result.i >= Len(result.lines)
    /\ pc' = "done"
    /\ UNCHANGED <<cmd, arg, result>>

\* fetchBlockChildren and the search command up to their loop: result
\* holds the locals.
CallFetchBlockChildren ==
    /\ pc = "start" /\ cmd \in {"fetchBlockChildren", "searchCmd"}
    /\ result' = [allResults |-> <<>>, currentCursor |-> arg.cursor, requests |-> <<>>,
                  err |-> ErrNone, returned |-> FALSE]
    /\ pc' = "loop"
    /\ UNCHANGED <<cmd, arg>>

\* The log of requests is kept up to MaxRequests entries.
LoopFetchBlockChildren ==
    /\ pc = "loop" /\ cmd = "fetchBlockChildren"
    /\ Len(result.requests) < MaxRequests
    /\ result' = fetchBlockChildrenPass(result, arg.remote, arg.all)
    /\ pc' = IF result'.returned THEN "done" ELSE "loop"
    /\ UNCHANGED <<cmd, arg>>

LoopSearchCmd ==
    /\ pc = "loop" /\ cmd = "searchCmd"
    /\ Len(result.requests) < MaxRequests
    /\ result' = searchCmdPass(result, arg.remote, arg.all, arg.outputFormat)
    /\ pc' = IF result'.returned THEN "done" ELSE "loop"
    /\ UNCHANGED <<cmd, arg>>

\* Execute up to the first request of the command's RunE: result holds
\* the position and what the process has written.
CallExecute ==
    /\ pc = "start" /\ cmd = "Execute"
    /\ result' = [next |-> 1, failed |-> {}, stdout |-> <<>>, stderr |-> <<>>,
                  errors |-> <<>>, exit |-> -1]
    /\ pc' = "run"
    /\ UNCHANGED <<cmd, arg>>

ExecuteRequest ==
    /\ pc = "run" /\ cmd = "Execute"
    /\ result.next <= Len(arg.script)
    /\ result' = RunRequest(result, arg.script, arg.fails)
    /\ pc' = IF result'.exit = -1 THEN "run" ELSE "done"
    /\ UNCHANGED <<cmd, arg>>

\* RunE returns nil after its last request: the process exits with 0.
ExecuteReturn ==
    /\ pc = "run" /\ cmd = "Execute"
    /\ result.next > Len(arg.script)
    /\ result' = [result EXCEPT !.exit = 0]
    /\ pc' = "done"
    /\ UNCHANGED <<cmd, arg>>

CallDbAddBulk ==
    /\ pc = "start" /\ cmd = "dbAddBulk"
    /\ result' = dbAddBulkStart(arg.items, arg.dbID, arg.remote.schemaFails)
    /\ pc' = IF result'.returned THEN "done" ELSE "loop"
    /\ UNCHANGED <<cmd, arg>>

LoopDbAddBulk ==
    /\ pc = "loop" /\ cmd = "dbAddBulk"
    /\ result.i < Len(arg.items)
    /\ \E order \in Orders(DOMAIN arg.items[result.i + 1]) :
          result' = dbAddBulkRow(result, arg.items[result.i + 1], order, Len(arg.items),
                                 arg.dbID, arg.dbProps, arg.outputFormat,
                                 (result.i + 1) \in arg.remote.fails)
    /\ pc' = "loop"
    /\ UNCHANGED <<cmd, arg>>

ReturnDbAddBulk ==
    /\ pc = "loop" /\ cmd = "dbAddBulk"
    /\ result.i = Len(arg.items)
    /\ result' = dbAddBulkReport(result, Len(arg.items))
    /\ pc' = "done"
    /\ UNCHANGED <<cmd, arg>>

CallBlockDelete ==
    /\ pc = "start" /\ cmd = "blockDelete"
    /\ result' = [i |-> 0, deleted |-> 0, requests |-> <<>>, stdout |-> <<>>,
                  stderr |-> <<>>, exit |-> -1]
    /\ pc' = "loop"
    /\ UNCHANGED <<cmd, arg>>

LoopBlockDelete ==
    /\ pc = "loop" /\ cmd = "blockDelete"
    /\ result.i < Len(arg.ids)
    /\ result' = blockDeletePass(result, arg.ids[result.i + 1].input,
                                 (result.i + 1) \in arg.remote.fails)
    /\ pc' = "loop"
    /\ UNCHANGED <<cmd, arg>>

ReturnBlockDelete ==
    /\ pc = "loop" /\ cmd = "blockDelete"
    /\ result.i = Len(arg.ids)
    /\ result' = blockDeleteReport(result, arg.outputFormat)
    /\ pc' = "done"
    /\ UNCHANGED <<cmd, arg>>

CallPropertyWrite ==
    /\ pc = "start" /\ cmd = "propertyWrite"
    /\ result' = propertyWriteStart(arg.command, arg.id, arg.remote.getFails)
    /\ pc' = IF result'.returned THEN "done" ELSE "loop"
    /\ UNCHANGED <<cmd, arg>>

LoopPropertyWrite ==
    /\ pc = "loop" /\ cmd = "propertyWrite"
    /\ result.k < Len(arg.kvs)
    /\ result' = propertyWriteParse(result, arg.kvs[result.k + 1].text, arg.props)
    /\ pc' = IF result'.returned THEN "done" ELSE "loop"
    /\ UNCHANGED <<cmd, arg>>

SendPropertyWrite ==
    /\ pc = "loop" /\ cmd = "propertyWrite"
    /\ result.k = Len(arg.kvs)
    /\ \E name \in (IF TitleNames(arg.props) = {} THEN {<<>>} ELSE TitleNames(arg.props)) :
          result' = propertyWriteSend(result, arg.command, arg.id, arg.title, arg.text, name,
                                      arg.remote.writeFails)
    /\ pc' = "done"
    /\ UNCHANGED <<cmd, arg>>

CallApiCmd ==
    /\ pc = "start" /\ cmd = "apiCmd"
    /\ result' = apiCmd(arg.method.text, arg.path, arg.body, arg.stdin, arg.fails)
    /\ pc' = "done"
    /\ UNCHANGED <<cmd, arg>>

(***************************************************************************)
(* A session: commands run one after the other over the credential file.   *)
(* arg is the environment the session starts in, result the file and the   *)
(* last command.                                                           *)
(***************************************************************************)
SessionInit ==
    /\ pc = "session" /\ cmd = "session"
    /\ arg \in {[file |-> f, umask |-> u] : f \in FilesBefore, u \in Umasks}
    /\ result = [file |-> arg.file, n |-> 0,
                 last |-> Ran("none", arg.file, <<>>, <<>>, FALSE, ErrNone)]

RunAuthLogin ==
    /\ pc = "session" /\ result.n < MaxCommands
    /\ \E line \in TokenLines, me \in MeAnswers, mkdirFails \in BOOLEAN :
          LET ran == authLoginCmd(result.file, line, me, arg.umask, mkdirFails)
          IN  result' = [file |-> ran.file, n |-> result.n + 1, last |-> ran]
    /\ UNCHANGED <<pc, cmd, arg>>

RunAuthLogout ==
    /\ pc = "session" /\ result.n < MaxCommands
    /\ \E mkdirFails \in BOOLEAN :
          LET ran == authLogoutCmd(result.file, arg.umask, mkdirFails)
          IN  result' = [file |-> ran.file, n |-> result.n + 1, last |-> ran]
    /\ UNCHANGED <<pc, cmd, arg>>

RunAuthStatus ==
    /\ pc = "session" /\ result.n < MaxCommands
    /\ \E env \in {<<>>} \cup Tokens, me \in MeAnswers :
          LET ran == authStatusCmd(result.file, env, me)
          IN  result' = [file |-> ran.file, n |-> result.n + 1, last |-> ran]
    /\ UNCHANGED <<pc, cmd, arg>>

SessionNext == RunAuthLogin \/ RunAuthLogout \/ RunAuthStatus

SessionSpec == SessionInit /\ [][SessionNext]_vars

CallDbQueryCmd ==
    /\ pc = "start" /\ cmd = "dbQueryCmd"
    /\ result' = dbQueryRun(arg.dbID, arg.filters, arg.sorts, arg.limit, arg.cursor,
                            arg.dbProps, arg.source, arg.outputFormat)
    /\ pc' = "done"
    /\ UNCHANGED <<cmd, arg>>

\* page link; result keeps the run and the page the remote holds after it.
CallPageLink ==
    /\ pc = "start" /\ cmd = "pageLink"
    /\ LET ran == pageLinkCmd(arg.pageID, arg.propName, arg.t, arg.page, 0, arg.fails)
       IN  result' = [link |-> ran, unlink |-> ran, requests |-> ran.requests,
                      page |-> Patched(arg.page, arg.propName, ran)]
    /\ pc' = "linked"
    /\ UNCHANGED <<cmd, arg>>

\* page unlink, on the page as it is or after the link of the same target.
CallPageUnlink ==
    /\ \/ pc = "start" /\ cmd = "pageUnlink"
       \/ pc = "linked" /\ cmd = "pageLink"
    /\ LET before == IF pc = "start" THEN arg.page ELSE result.page
           base == IF pc = "start" THEN 0 ELSE Len(result.requests)
           ran == pageUnlinkCmd(arg.pageID, arg.propName, arg.t, before, base, arg.fails)
       IN  result' = [link |-> IF pc = "start" THEN ran ELSE result.link, unlink |-> ran,
                      requests |-> (IF pc = "start" THEN <<>> ELSE result.requests)
                                   \o ran.requests,
                      page |-> Patched(before, arg.propName, ran)]
    /\ pc' = "done"
    /\ UNCHANGED <<cmd, arg>>

Next ==
    \/ CallResolveID
    \/ CallBuildPropertyValue
    \/ CallExtractPropertyValue
    \/ CallBuildFilter
    \/ CallParseFilter
    \/ CallParseSort
    \/ CallDbQueryBody
    \/ CallParseMarkdownToBlocks
    \/ LoopParseMarkdownToBlocks
    \/ ReturnParseMarkdownToBlocks
    \/ CallFetchBlockChildren
    \/ LoopFetchBlockChildren
    \/ LoopSearchCmd
    \/ CallExecute
    \/ ExecuteRequest
    \/ ExecuteReturn
    \/ CallDbAddBulk
    \/ LoopDbAddBulk
    \/ ReturnDbAddBulk
    \/ CallBlockDelete
    \/ LoopBlockDelete
    \/ ReturnBlockDelete
    \/ CallPropertyWrite
    \/ LoopPropertyWrite
    \/ SendPropertyWrite
    \/ CallApiCmd
    \/ CallDbQueryCmd
    \/ CallPageLink
    \/ CallPageUnlink

Spec == Init /\ [][Next]_vars

\* The pagination loops on their own.  Every step is a step of the one
\* running command, which the runtime does not suspend forever.
PageInit ==
    /\ pc = "start"
    /\ result = <<>>
    /\ \/ cmd = "fetchBlockChildren" /\ arg \in PageArgs
       \/ cmd = "searchCmd" /\ arg \in SearchArgs
       \/ cmd \in {"fetchBlockChildren", "searchCmd"} /\ arg \in CursorlessArgs

PageNext ==
    \/ CallFetchBlockChildren
    \/ LoopFetchBlockChildren
    \/ LoopSearchCmd

PageSpec == PageInit /\ [][PageNext]_vars /\ WF_vars(PageNext)

(***************************************************************************)
(* Identifier resolver: claims                                             *)
(***************************************************************************)
Resolved == pc = "done" /\ cmd = "ResolveID"

IsString(s) == DOMAIN s = 1..Len(s) /\ \A i \in 1..Len(s) : s[i] \in STRING

IsDashedUUID(s) ==
    /\ Len(s) = 36
    /\ \A i \in 1..36 : IF i \in {9, 14, 19, 24} THEN s[i] = "-" ELSE s[i] \in HexLower

IsPlain32(s) == Len(s) = 32 /\ \A i \in 1..32 : s[i] \in HexLower

\* t is s without its leading and trailing whitespace.
IsTrimOf(t, s) ==
    /\ \E l \in 0..Len(s) : \E r \in 0..(Len(s) - l) :
          /\ t = SubSeq(s, l + 1, Len(s) - r)
          /\ \A i \in (1..l) \cup ((Len(s) - r + 1)..Len(s)) : IsSpace(s[i])
    /\ t # <<>> => ~IsSpace(t[1]) /\ ~IsSpace(t[Len(t)])

\* C1 (as claimed): ResolveID of 32 lowercase hex characters, and of their
\* dashed form, is the dashed form.
C1_DashlessAndDashedNormalizeAlike ==
    (Resolved /\ arg.kind \in {"plain32", "dashed36"}) => result = Dashed(arg.id)

\* C2 (as claimed): a link whose last path segment is a slug followed by a
\* 32-hex identifier resolves to that identifier in dashed form, whatever
\* the slug.
C2_LinkYieldsTrailingIdentifier ==
    (Resolved /\ arg.kind = "url") => result = Dashed(arg.id)

\* C3 (as claimed): an input that is neither a link, nor a dashed UUID, nor
\* 32 lowercase hex characters is returned character for character.
C3_OtherInputReturnedVerbatim ==
    (Resolved /\ arg.kind \notin {"url"} /\ ~IsDashedUUID(arg.input) /\ ~IsPlain32(arg.input))
        => result = arg.input

\* C3 (amended): ResolveID always returns a string; when the input without
\* its surrounding whitespace is neither a link, nor a dashed UUID, nor 32
\* lowercase hex characters, the result is the input without its leading and
\* trailing whitespace, hence the input itself when it has none.
C3_OtherInputReturnedTrimmed ==
    Resolved =>
        /\ IsString(result)
        /\ arg.kind = "other" =>
              /\ IsTrimOf(result, arg.input)
              /\ (arg.input = <<>> \/ (~IsSpace(arg.input[1]) /\ ~IsSpace(arg.input[Len(arg.input)])))
                    => result = arg.input

C3_Witness ==
    /\ Resolved /\ arg.kind = "other"
    /\ result # <<>> /\ Len(result) + 2 = Len(arg.input)

(***************************************************************************)
(* Property codec: claims                                                  *)
(***************************************************************************)
Built == pc = "done" /\ cmd = "buildPropertyValue"
Extracted == pc = "done" /\ cmd = "extractPropertyValue"

RoundTripTypes == {Lit.select, Lit.status, Lit.checkbox, Lit.url, Lit.email, Lit.phone_number}
TruthTokens == {Lit.true, <<"1">>, Lit.yes}

\* C4 (as claimed): for the types select, status, checkbox, url, email and
\* phone_number, decoding what the encoder built returns the encoded string.
C4_DecodeOfEncodeIsIdentity ==
    (Built /\ arg.propType \in RoundTripTypes)
        => extractPropertyValue(Val(result)) = arg.value

\* C4 (amended): for select, status, url, email and phone_number, decoding
\* what the encoder built, once it carries its type tag as a property
\* returned by the remote does, returns the encoded string; for checkbox it
\* returns the check mark when the string is true, 1 or yes and the ballot x
\* otherwise.
C4_DecodeOfTaggedEncode ==
    Built =>
        /\ arg.propType \in RoundTripTypes \ {Lit.checkbox}
              => extractPropertyValue(Tagged(arg.propType, result)) = arg.value
        /\ arg.propType = Lit.checkbox
              => extractPropertyValue(Tagged(arg.propType, result))
                    = IF arg.value \in TruthTokens THEN CheckMark ELSE BallotX

C4_Witness ==
    /\ Built /\ arg.propType = Lit.phone_number /\ Len(arg.value) = 2
    /\ extractPropertyValue(Tagged(arg.propType, result)) = arg.value

\* The segments of v between its commas, in order.
Segments(v) ==
    LET commas == {i \in 1..Len(v) : v[i] = ","}
        cuts   == {0, Len(v) + 1} \cup commas
        nth(n) == CHOOSE c \in cuts : Cardinality({d \in cuts : d < c}) = n - 1
    IN  [n \in 1..(Cardinality(cuts) - 1) |-> SubSeq(v, nth(n) + 1, nth(n + 1) - 1)]

\* C5 (as claimed): multi_select yields one {name: segment} option per comma
\* separated segment of v, trimmed and in order, and no option for the empty v.
C5_MultiSelectOptions ==
    (Built /\ arg.propType = Lit.multi_select) =>
        LET options == Val(Val(result)[Lit.multi_select])
            segs    == IF arg.value = <<>> THEN <<>> ELSE Segments(arg.value)
        IN  /\ Len(options) = Len(segs)
            /\ \A i \in 1..Len(segs) :
                  /\ DOMAIN options[i] = {Lit.name}
                  /\ Kind(options[i][Lit.name]) = "string"
                  /\ IsTrimOf(Val(options[i][Lit.name]), segs[i])

\* C6: buildPropertyValue always returns a map with exactly one key, the
\* type tag when it is one of the eleven tags it knows and rich_text, with
\* the single text run of the value, for every other tag.
C6_OneKeyEqualToTag ==
    Built =>
        /\ IsMap(result)
        /\ DOMAIN Val(result) = {IF arg.propType \in KnownTypes THEN arg.propType ELSE Lit.rich_text}
        /\ arg.propType \notin KnownTypes
              => Val(result)[Lit.rich_text]
                    = JMapList(<<Lit.text :> JMap(Lit.content :> JStr(arg.value))>>)

C6_Witness ==
    Built /\ arg.propType = Lit.unknown_type /\ arg.value # <<>>
          /\ DOMAIN Val(result) = {Lit.rich_text}

\* C7: the checkbox value of the codec and of the filter compiler is true
\* exactly for the strings true, 1 and yes, so both agree on every string.
C7_CheckboxTruthSetShared ==
    /\ (Built /\ arg.propType = Lit.checkbox) =>
          /\ Val(result)[Lit.checkbox] = JBool(arg.value \in TruthTokens)
          /\ \A op \in GenericOps :
                Val(buildFilter(Lit.Done, Lit.checkbox, op, arg.value)[Lit.checkbox])[Lit.equals]
                    = Val(result)[Lit.checkbox]
    /\ (pc = "done" /\ cmd = "buildFilter" /\ arg.propType = Lit.checkbox) =>
          /\ result[Lit.checkbox] = JMap(Lit.equals :> JBool(arg.value \in TruthTokens))
          /\ Val(buildPropertyValue(Lit.checkbox, arg.value))[Lit.checkbox]
                = Val(result[Lit.checkbox])[Lit.equals]

C7_Witness ==
    /\ pc = "done" /\ cmd = "buildFilter" /\ arg.propType = Lit.checkbox
    /\ arg.value = Lit.yes
    /\ result[Lit.checkbox] = JMap(Lit.equals :> JBool(TRUE))

\* What C8 expects of a formula or rollup: the nested value decoded by its
\* nested type, the empty string when it is missing or nil.
NestedDecoded(prop) ==
    LET f == Get(prop, StringOf(Get(prop, Lit.type)))
    IN  IF ~IsMap(f) THEN <<>>
        ELSE LET fType == StringOf(Get(Val(f), Lit.type))
                 x     == Get(Val(f), fType)
             IN  CASE Kind(x) = "nil" -> <<>>
                   [] Kind(x) = "bool" -> IF Val(x) THEN CheckMark ELSE BallotX
                   [] Kind(x) = "string" -> Val(x)
                   [] OTHER -> extractPropertyValue(Val(f))

\* C8 (as claimed): a formula or rollup property decodes to the decoding of
\* its nested typed value, a boolean as check mark or ballot x, a date as
\* start or start, arrow, end, a string as itself, nothing as the empty string.
C8_ComputedValueDecodedRecursively ==
    (Extracted /\ StringOf(Get(arg.prop, Lit.type)) \in {Lit.formula, Lit.rollup})
        => result = NestedDecoded(arg.prop)

(***************************************************************************)
(* Filter compiler: claims                                                 *)
(***************************************************************************)
Parsed == pc = "done" /\ cmd = "parseFilter"

NoOperatorChar(s) == \A i \in 1..Len(s) : s[i] \notin OperatorChars

GenericOf(op) ==
    CASE op = <<">", "=">> -> Lit.gte
      [] op = <<"<", "=">> -> Lit.lte
      [] op = <<"!", "=">> -> Lit.neq
      [] op = <<"~", "=">> -> Lit.contains
      [] op = <<">">> -> Lit.gt
      [] op = <<"<">> -> Lit.lt
      [] op = <<"=">> -> Lit.eq

\* The case C9 is about: a schema name, one of the seven operators, a value.
C9_Case ==
    /\ Parsed
    /\ arg.lhs \in DOMAIN arg.dbProps
    /\ arg.op \in OperatorTokens \ {<<"!", "~", "=">>}
    /\ NoOperatorChar(arg.lhs) /\ NoOperatorChar(arg.rhs)

C9_Split ==
    /\ result.err = ErrNone
    /\ result.propName = arg.lhs
    /\ result.op = GenericOf(arg.op)
    /\ IsTrimOf(result.value, arg.rhs)
    /\ Val(result.filter[Lit.property]) = arg.lhs
    /\ arg.expr = Lit.Count \o <<">", "=", "1", "0">>
          => result.filter
                = (Lit.property :> JStr(Lit.Count))
                  @@ (Lit.number :> JMap(Lit.greater_than_or_equal_to :>
                        JFloat([neg |-> FALSE, ip |-> <<"1", "0">>, fp |-> <<>>])))

\* C9 (as claimed): for every name P of the schema and every value V, both
\* free of operator characters, and each of the operators >=, <=, !=, ~=, >,
\* <, =, parseFilter splits P op V at op and yields property P, the generic
\* operator of op and the value trim(V).
C9_SplitsAtTheOperator == C9_Case => C9_Split

\* C9 (amended): the same for every name P of the schema that neither
\* starts nor ends with whitespace.
C9_SplitsAtTheOperatorTrimmedName ==
    (C9_Case /\ IsTrimOf(arg.lhs, arg.lhs)) => C9_Split

C9_Witness ==
    /\ C9_Case /\ arg.expr = Lit.Count \o <<">", "=", "1", "0">>
    /\ result.op = Lit.gte /\ result.err = ErrNone

TextTypes == {Lit.title, Lit.rich_text, Lit.url, Lit.email, Lit.phone_number}

\* C10 (as claimed): for a text property P and a value V free of operator
\* characters, parseFilter of P!~=V succeeds with {property: P, <type of P>:
\* {does_not_contain: V}}.
C10_NotContainsRecognized ==
    (/\ Parsed
     /\ arg.op = <<"!", "~", "=">>
     /\ arg.lhs \in DOMAIN arg.dbProps
     /\ StringOf(Get(Val(Get(arg.dbProps, arg.lhs)), Lit.type)) \in TextTypes
     /\ NoOperatorChar(arg.lhs) /\ NoOperatorChar(arg.rhs))
        => /\ result.err = ErrNone
           /\ DOMAIN result.filter
                = {Lit.property, StringOf(Get(Val(arg.dbProps[arg.lhs]), Lit.type))}
           /\ Val(result.filter[Lit.property]) = arg.lhs
           /\ \E v \in {arg.rhs, TrimSpace(arg.rhs)} :
                \A key \in DOMAIN result.filter \ {Lit.property} :
                    result.filter[key] = JMap(Lit.does_not_contain :> JStr(v))

\* The operator tokens of the claim, in the order the claim lists them.
C11_Tokens ==
    <<<<">", "=">>, <<"<", "=">>, <<"!", "=">>, <<"~", "=">>, <<"!", "~", "=">>,
      <<">">>, <<"<">>, <<"=">>>>

C11_Occurring(expr) == {i \in 1..Len(C11_Tokens) : Contains(expr, C11_Tokens[i])}

\* The text left of the first occurrence of the first listed token that
\* occurs in expr, trimmed.
C11_Left(expr) ==
    LET tok == C11_Tokens[CHOOSE i \in C11_Occurring(expr) :
                              \A j \in C11_Occurring(expr) : i <= j]
    IN  TrimSpace(Slice(expr, 0, Index(expr, tok)))

\* C11: parseFilter fails with the no-operator error exactly when none of
\* the tokens >=, <=, !=, ~=, !~=, >, <, = occurs in the expression, with the
\* unknown-property error exactly when a token occurs and the trimmed text
\* left of the chosen one is not a name of the schema, and in every other
\* case returns a filter condition and no error.
C11_ErrorsExactlyInTwoCases ==
    Parsed =>
        /\ result.err \in {ErrNone, ErrNoOperator, ErrNotFound}
        /\ result.err = ErrNoOperator <=> C11_Occurring(arg.expr) = {}
        /\ result.err = ErrNotFound
              <=> /\ C11_Occurring(arg.expr) # {}
                  /\ C11_Left(arg.expr) \notin DOMAIN arg.dbProps
        /\ result.err = ErrNone
              => /\ Lit.property \in DOMAIN result.filter
                 /\ Cardinality(DOMAIN result.filter) = 2
        /\ result.err # ErrNone => result.filter = EmptyMap

\* Bogus=1 against a database without properties is an unknown property.
C11_Witness ==
    /\ Parsed
    /\ arg.expr = <<"B", "o", "g", "u", "s", "=", "1">>
    /\ arg.dbProps = EmptyMap
    /\ result.err = ErrNotFound

(***************************************************************************)
(* Filter builder: claims                                                  *)
(***************************************************************************)
FilterBuilt == pc = "done" /\ cmd = "buildFilter"

DateTypes == {Lit.date, Lit.created_time, Lit.last_edited_time}

\* The key the claim names for a type tag.
C12_Key(propType) ==
    IF propType \in TextTypes \cup DateTypes
                    \cup {Lit.number, Lit.select, Lit.status, Lit.multi_select, Lit.checkbox}
    THEN propType ELSE Lit.rich_text

\* The operator names the claim allows for a type tag and a generic operator.
C12_Vocabulary(propType, op) ==
    CASE propType = Lit.number ->
            {Lit.equals, Lit.does_not_equal, Lit.greater_than, Lit.greater_than_or_equal_to,
             Lit.less_than, Lit.less_than_or_equal_to}
      [] propType \in DateTypes ->
            IF op \in {Lit.gt, Lit.gte} THEN {Lit.on_or_after}
            ELSE IF op \in {Lit.lt, Lit.lte} THEN {Lit.on_or_before}
            ELSE {Lit.equals, Lit.does_not_equal}
      [] propType \in {Lit.select, Lit.status} -> {Lit.equals, Lit.does_not_equal}
      [] propType = Lit.multi_select -> {Lit.contains, Lit.does_not_contain}
      [] propType = Lit.checkbox -> {Lit.equals}
      [] OTHER -> {Lit.equals, Lit.does_not_equal, Lit.contains, Lit.does_not_contain}

\* C12: for every property type and every generic operator buildFilter
\* returns a map with exactly the keys property and K, K the type tag
\* (rich_text for an unrecognized type), and under K exactly one operator
\* name, which belongs to the vocabulary of the type.
C12_KeysAndVocabulary ==
    FilterBuilt =>
        /\ DOMAIN result = {Lit.property, C12_Key(arg.propType)}
        /\ result[Lit.property] = JStr(arg.propName)
        /\ Kind(result[C12_Key(arg.propType)]) = "map[string]interface{}"
        /\ Cardinality(DOMAIN Val(result[C12_Key(arg.propType)])) = 1
        /\ DOMAIN Val(result[C12_Key(arg.propType)])
              \subseteq C12_Vocabulary(arg.propType, arg.op)

\* A created_time property compared with >= compiles to on_or_after.
C12_Witness ==
    /\ FilterBuilt
    /\ arg.propType = Lit.created_time /\ arg.op = Lit.gte
    /\ DOMAIN Val(result[Lit.created_time]) = {Lit.on_or_after}

(***************************************************************************)
(* Sort parser: claims                                                     *)
(***************************************************************************)
Sorted == pc = "done" /\ cmd = "parseSort"

\* C14: parseSort never fails; the property is the trimmed text before the
\* first ':' (the whole trimmed expression without a ':'), and the direction
\* is descending exactly when the text after the first ':', trimmed and
\* lower-cased, is desc or descending, and ascending in every other case.
C14_SortIsTotal ==
    Sorted =>
        /\ DOMAIN result = {Lit.property, Lit.direction}
        /\ Kind(result[Lit.property]) = "string"
        /\ IsTrimOf(Val(result[Lit.property]), arg.name)
        /\ result[Lit.direction]
              = JStr(IF arg.colon /\ arg.desc THEN Lit.descending ELSE Lit.ascending)

\* Name:DESC sorts by Name, descending.
C14_Witness ==
    /\ Sorted
    /\ arg.expr = <<"D", "a", "t", "e", ":", "D", "E", "S", "C">>
    /\ result = (Lit.property :> JStr(<<"D", "a", "t", "e">>))
                @@ (Lit.direction :> JStr(Lit.descending))

(***************************************************************************)
(* db query: claims                                                        *)
(***************************************************************************)
QueryBuilt == pc = "done" /\ cmd = "dbQuery"

C13_AllCompile ==
    \A i \in 1..Len(arg.filters) : parseFilter(arg.filters[i], arg.dbProps).err = ErrNone

C13_Condition(i) == JMap(parseFilter(arg.filters[i], arg.dbProps).filter)

\* C13: n --filter expressions that all compile give, for n = 1, the single
\* condition itself as the filter of the request, for n >= 2 the object
\* {and: [c1, ..., cn]} with the conditions in flag order, and for n = 0 a
\* request without a filter key.
C13_FilterCombination ==
    (QueryBuilt /\ C13_AllCompile) =>
        /\ result.err = ErrNone
        /\ Len(arg.filters) = 0 => Lit.filter \notin DOMAIN result.body
        /\ Len(arg.filters) = 1 => Get(result.body, Lit.filter) = C13_Condition(1)
        /\ Len(arg.filters) >= 2 =>
              Get(result.body, Lit.filter)
                = JMap(Lit.and :> JList([i \in 1..Len(arg.filters) |-> C13_Condition(i)]))

\* Two different conditions, the number comparison given first.
C13_Witness ==
    /\ QueryBuilt
    /\ arg.filters = <<Lit.Count \o <<">", "=", "1", "0">>,
                       <<"S", "t", "a", "t", "u", "s", "=", "D", "o", "n", "e">>>>
    /\ Lit.filter \in DOMAIN result.body
    /\ DOMAIN Val(result.body[Lit.filter]) = {Lit.and}
    /\ Len(Val(Val(result.body[Lit.filter])[Lit.and])) = 2
    /\ Lit.number \in DOMAIN Val(Val(Val(result.body[Lit.filter])[Lit.and])[1])
    /\ Lit.select \in DOMAIN Val(Val(Val(result.body[Lit.filter])[Lit.and])[2])

(***************************************************************************)
(* Markdown parser: claims                                                 *)
(***************************************************************************)
MdRunning == cmd = "parseMarkdownToBlocks" /\ pc = "loop"
MdEnded == cmd = "parseMarkdownToBlocks" /\ pc \in {"done", "panic"}

StartsWith(line, p) == Len(line) >= Len(p) /\ SubSeq(line, 1, Len(p)) = p

\* The numbered rule as the claims word it: a digit first, and ". " within
\* the first 5 characters.
C16_Numbered(line) ==
    /\ line # <<>> /\ line[1] \in {"0", "1", "2", "3", "4", "5", "6", "7", "8", "9"}
    /\ \E k \in 1..4 : k + 1 <= Len(line) /\ line[k] = "." /\ line[k + 1] = " "

\* The block type of a non-blank line outside a fence: the first matching
\* rule in the order of the claim.
C15_Kind(line) ==
    IF StartsWith(line, <<"#", "#", "#", " ">>) THEN Lit.heading_3
    ELSE IF StartsWith(line, <<"#", "#", " ">>) THEN Lit.heading_2
    ELSE IF StartsWith(line, <<"#", " ">>) THEN Lit.heading_1
    ELSE IF \E c \in {" ", "x", "X"} : StartsWith(line, <<"-", " ", "[", c, "]", " ">>)
         THEN Lit.to_do
    ELSE IF StartsWith(line, <<"-", " ">>) \/ StartsWith(line, <<"*", " ">>)
         THEN Lit.bulleted_list_item
    ELSE IF C16_Numbered(line) THEN Lit.numbered_list_item
    ELSE IF StartsWith(line, <<">", " ">>) THEN Lit.quote
    ELSE IF line \in {<<"-", "-", "-">>, <<"*", "*", "*">>, <<"_", "_", "_">>} THEN Lit.divider
    ELSE Lit.paragraph

\* The lines after the closing fence of a fence whose body starts at lines.
RECURSIVE AfterFence(_)
AfterFence(lines) ==
    IF lines = <<>> THEN <<>>
    ELSE IF StartsWith(Head(lines), Fence) THEN Tail(lines)
    ELSE AfterFence(Tail(lines))

\* The block types the claim expects, in line order: one per non-blank line
\* outside a fence, one code block per fence.
RECURSIVE C15_Types(_)
C15_Types(lines) ==
    IF lines = <<>> THEN <<>>
    ELSE IF StartsWith(Head(lines), Fence)
         THEN <<Lit.code>> \o C15_Types(AfterFence(Tail(lines)))
    ELSE IF TrimSpace(Head(lines)) = <<>> THEN C15_Types(Tail(lines))
    ELSE <<C15_Kind(Head(lines))>> \o C15_Types(Tail(lines))

BlockType(block) == StringOf(Get(block, Lit.type))
BlockText(block) ==
    LET runs == Val(Get(Val(Get(block, BlockType(block))), Lit.rich_text))
    IN  StringOf(Get(Val(Get(runs[1], Lit.text)), Lit.content))

\* C15 (as claimed): parseMarkdownToBlocks returns one block per non-blank
\* line outside a fence and one per fence, in line order, each of the type
\* of the first matching rule in the order blank, headings, to_do, bullet,
\* numbered, quote, divider, paragraph; a to_do line is never a bullet.
C15_ClassifiedInOrder ==
    MdEnded =>
        /\ pc = "done"
        /\ Len(result.blocks) = Len(C15_Types(arg.lines))
        /\ \A k \in 1..Len(result.blocks) :
              BlockType(result.blocks[k]) = C15_Types(arg.lines)[k]

\* One iteration at a line the claims make a paragraph or a numbered item.
C16_Iteration ==
    LET line == result.lines[result.i + 1]
        kind == C15_Kind(line)
        text == IF kind = Lit.paragraph THEN line
                ELSE Slice(line, Index(line, <<".", " ">>) + 2, Len(line))
    IN  (/\ MdRunning /\ result.i < Len(result.lines)
         /\ ~StartsWith(line, Fence) /\ TrimSpace(line) # <<>>
         /\ kind \in {Lit.paragraph, Lit.numbered_list_item})
            => /\ pc' = "loop"
               /\ result'.i = result.i + 1
               /\ Len(result'.blocks) = Len(result.blocks) + 1
               /\ SubSeq(result'.blocks, 1, Len(result.blocks)) = result.blocks
               /\ BlockType(result'.blocks[Len(result'.blocks)]) = kind
               /\ IsTrimOf(BlockText(result'.blocks[Len(result'.blocks)]), text)

\* C16 (as claimed): every non-blank line that matches no earlier rule
\* yields exactly one paragraph with the trimmed line; a line that starts
\* with a digit becomes a numbered_list_item with the text after the first
\* ". " when ". " lies within its first 5 characters and a paragraph
\* otherwise, whatever its length.
C16_ParagraphOrNumbered == [][C16_Iteration]_vars

\* The index of the closing fence of the fence opened at line i, or the
\* number of lines.
C17_Close(lines, i) ==
    LET later == {j \in (i + 1)..(Len(lines) - 1) : StartsWith(lines[j + 1], Fence)}
    IN  IF later = {} THEN Len(lines) ELSE CHOOSE j \in later : \A k \in later : j <= k

\* One iteration at a line that begins with three backticks.
C17_Iteration ==
    LET lines == result.lines
        i     == result.i
        rest  == TrimSpace(SubSeq(lines[i + 1], 4, Len(lines[i + 1])))
        close == C17_Close(lines, i)
        code  == Val(Get(result'.blocks[Len(result'.blocks)], Lit.code))
    IN  (MdRunning /\ i < Len(lines) /\ StartsWith(lines[i + 1], Fence))
            => /\ pc' = "loop"
               /\ Len(result'.blocks) = Len(result.blocks) + 1
               /\ SubSeq(result'.blocks, 1, Len(result.blocks)) = result.blocks
               /\ BlockType(result'.blocks[Len(result'.blocks)]) = Lit.code
               /\ code[Lit.language]
                    = JStr(IF rest = <<>> THEN Lit.plain_text_language ELSE rest)
               /\ BlockText(result'.blocks[Len(result'.blocks)])
                    = Join([k \in 1..(close - i - 1) |-> lines[i + 1 + k]], <<"\n">>)
               /\ result'.i = close + 1

\* C17: a line beginning with three backticks yields exactly one code block,
\* its language the trimmed rest of the line or "plain text", its body the
\* following lines up to the next line beginning with three backticks joined
\* by newlines; the loop continues at the line after the closing fence, and
\* past the last line when the fence is not closed.
C17_FenceYieldsOneCodeBlock == [][C17_Iteration]_vars

\* A closed fence with a language and a heading-like line as its body.
C17_Witness ==
    /\ MdRunning
    /\ arg.lines = <<Fence \o <<" ", "g", "o">>, <<"#", " ", "H">>, Fence>>
    /\ result.i = 3
    /\ Len(result.blocks) = 1
    /\ BlockType(result.blocks[1]) = Lit.code
    /\ BlockText(result.blocks[1]) = <<"#", " ", "H">>
    /\ Val(result.blocks[1][Lit.code])[Lit.language] = JStr(<<"g", "o">>)

(***************************************************************************)
(* Pagination: claims                                                      *)
(***************************************************************************)
Paginating == cmd \in {"fetchBlockChildren", "searchCmd"}

\* The items of pages 1..n of a source, in page order.
RECURSIVE ItemsUpTo(_, _)
ItemsUpTo(source, n) ==
    IF n = 0 THEN <<>>
    ELSE ItemsUpTo(source, n - 1) \o Val(source[n][Lit.results])

\* The cursors of N fetches: the start cursor, then the next_cursor of
\* pages 1..N-1.
CursorsOf(source, start) ==
    [p \in 1..Len(source) |-> IF p = 1 THEN start ELSE Val(source[p - 1][Lit.next_cursor])]

C18_Started ==
    Paginating /\ pc = "start" /\ arg.remote.failAt = 0 /\ arg.remote.source \in Sources

C18_Finished ==
    /\ Paginating /\ pc = "done" /\ result.err = ErrNone
    /\ arg.all =>
          /\ result.requests = CursorsOf(arg.remote.source, arg.cursor)
          /\ result.allResults = ItemsUpTo(arg.remote.source, Len(arg.remote.source))
    /\ ~arg.all =>
          /\ result.requests = <<arg.cursor>>
          /\ result.allResults = ItemsUpTo(arg.remote.source, 1)

\* C18: over a source of N pages whose pages 1..N-1 have more and a cursor
\* and whose page N has no more, the loop with all set ends after exactly N
\* fetches, the first with the start cursor and each later one with the
\* next_cursor of the page before, and returns the items of the N pages in
\* page order; without all it ends after one fetch with the items of page 1.
C18_Paginates == C18_Started ~> C18_Finished

\* Three pages fetched from a start cursor, every page with items.
C18_Witness ==
    /\ cmd = "fetchBlockChildren" /\ pc = "done" /\ arg.all
    /\ arg.remote.failAt = 0 /\ arg.cursor = <<"c", "0">>
    /\ Len(arg.remote.source) = 3
    /\ result.requests = <<<<"c", "0">>, Cursor(1), Cursor(2)>>
    /\ result.allResults = <<Item(1, 1), Item(2, 1), Item(2, 2), Item(3, 1)>>

\* The run ended on a failed request.
C19_Failed == Paginating /\ pc = "done" /\ result.err # ErrNone

\* The failed fetch is the last one, and the error is what the caller gets.
C19_StopsAtTheFailure ==
    /\ (Paginating /\ pc = "loop") => result.err = ErrNone
    /\ C19_Failed =>
          /\ result.err = ErrRequest
          /\ Len(result.requests) = arg.remote.failAt

\* C19 (as claimed): when the k-th fetch fails no further fetch is issued,
\* the error is returned at once, and the items of pages 1..k-1 are returned
\* to the caller with it.
C19_PartialItemsReturned ==
    /\ C19_StopsAtTheFailure
    /\ C19_Failed =>
          result.allResults = ItemsUpTo(arg.remote.source, arg.remote.failAt - 1)

\* C19 (amended): when the k-th fetch fails no further fetch is issued, the
\* error is returned at once, and no items are returned with it.
C19_NothingReturnedWithTheError ==
    /\ C19_StopsAtTheFailure
    /\ C19_Failed => result.allResults = <<>>

\* The second fetch fails after a first page with items.
C19_Witness ==
    /\ C19_Failed /\ cmd = "fetchBlockChildren" /\ arg.all
    /\ arg.remote.failAt = 2
    /\ Len(result.requests) = 2
    /\ ItemsUpTo(arg.remote.source, 1) = <<Item(1, 1), Item(1, 2)>>
    /\ result.allResults = <<>>

(***************************************************************************)
(* Error propagation: claims                                               *)
(***************************************************************************)
\* The commands the claim excepts.
BatchCommands == {"dbAddBulkCmd", "blockDeleteCmd"}

\* C20 (as claimed): in every command but bulk import and multi-block
\* delete a failed request ends the command with the error on the error
\* stream and a non-zero exit; none goes on or exits with 0 after a failed
\* request, the child fetches of block list --depth and the checks of auth
\* doctor included.
C20_FailedRequestEndsTheCommand ==
    (/\ cmd = "Execute" /\ pc # "start" /\ arg.command \notin BatchCommands
     /\ result.failed # {})
        => /\ pc = "done"
           /\ result.exit = 1
           /\ result.stderr # <<>>

(***************************************************************************)
(* db add-bulk and block delete                                            *)
(***************************************************************************)
BulkEnded == cmd = "dbAddBulk" /\ pc = "done" /\ result.err = ErrNone
DeleteEnded == cmd = "blockDelete" /\ pc = "done"

\* The keys of a row that the schema of the test has.
KnownKeys(item) == DOMAIN item \cap DOMAIN TestSchema
PropertiesOf(request) == Val(Get(Val(request.body), Lit.properties))
\* The elements of s at the positions of K, in order.
RECURSIVE Pick(_, _, _)
Pick(s, K, k) ==
    IF k > Len(s) THEN <<>>
    ELSE (IF k \in K THEN <<s[k]>> ELSE <<>>) \o Pick(s, K, k + 1)

\* C21: once the schema was fetched, db add-bulk posts one page per row, in
\* the order of the file, whichever rows failed; the count it reports is the
\* number of rows whose POST succeeded and every row whose POST failed has
\* an entry among the reported errors.  block delete sends one DELETE per
\* identifier in the order given, whichever failed; the count it prints is
\* the number of deletes that succeeded and every failed identifier has a
\* line on standard error.
C21_EveryItemOnceInOrder ==
    /\ BulkEnded =>
        LET n == Len(arg.items)
            posts == SubSeq(result.requests, 2, Len(result.requests))
        IN  /\ Len(posts) = n
            /\ \A k \in 1..n :
                /\ posts[k].method = Lit.POST
                /\ DOMAIN PropertiesOf(posts[k]) = KnownKeys(arg.items[k])
            /\ result.report.created = n - Cardinality(arg.remote.fails)
            /\ result.report.total = n
            /\ \A k \in 1..n :
                k \in arg.remote.fails
                <=> \E e \in 1..Len(result.report.errors) :
                        /\ result.report.errors[e].row = k
                        /\ result.report.errors[e].what = "request"
    /\ DeleteEnded =>
        LET n == Len(arg.ids)
        IN  /\ Len(result.requests) = n
            /\ \A k \in 1..n :
                /\ result.requests[k].method = Lit.DELETE
                /\ result.requests[k].path = Lit.v1_blocks \o arg.ids[k].id
            /\ \A k \in 1..Len(result.stdout) :
                result.stdout[k].deleted = n - Cardinality(arg.remote.fails)
            /\ result.stderr
                 = Pick([k \in 1..n |-> [failed |-> arg.ids[k].id]], arg.remote.fails, 1)

C21_Witness ==
    \/ /\ BulkEnded /\ Len(arg.items) = 2 /\ arg.remote.fails = {1}
       /\ result.report.created = 1
    \/ /\ DeleteEnded /\ Len(arg.ids) = 2 /\ arg.remote.fails = {1}
       /\ result.stdout = <<[deleted |-> 1]>>

\* C29: after db add-bulk over a file of n rows, the count of created rows
\* plus the number of rows with at least one recorded error is n.
C29_CreatedPlusFailedIsTotal ==
    BulkEnded =>
        LET n == Len(arg.items)
            withError == {k \in 1..n : \E e \in 1..Len(result.report.errors) :
                                           result.report.errors[e].row = k}
        IN  result.report.created + Cardinality(withError) = n

(***************************************************************************)
(* Property-typed writes                                                   *)
(***************************************************************************)
Writing == cmd = "propertyWrite" /\ pc # "start"
Mutating == {Lit.POST, Lit.PATCH, Lit.PUT, Lit.DELETE}
\* The requests of the log that change the remote.
Mutations(requests) == {k \in 1..Len(requests) : requests[k].method \in Mutating}
C22_BadArgument == \E k \in 1..Len(arg.kvs) : ~arg.kvs[k].hasEq \/ ~arg.kvs[k].known

\* C22: in db add, page set and page create --db the GET is the first
\* request and precedes every property that is built and the one request
\* that writes; when the GET fails, when an argument lacks '=' or when a
\* key is not a property of what was fetched, no request that writes is
\* ever sent.
C22_FetchThenMutate ==
    Writing =>
        /\ result.requests[1].method = Lit.GET
        /\ Mutations(result.requests) \subseteq {2}
        /\ Mutations(result.requests) # {} => pc = "done" /\ result.k = Len(arg.kvs)
        /\ (arg.remote.getFails \/ C22_BadArgument) =>
              /\ Mutations(result.requests) = {}
              /\ pc = "done" => result.err # ErrNone /\ result.exit = 1

C22_Witness ==
    /\ Writing /\ pc = "done" /\ ~arg.remote.getFails
    /\ Len(arg.kvs) = 2 /\ arg.kvs[1].known /\ ~arg.kvs[2].known
    /\ result.properties # EmptyMap /\ Mutations(result.requests) = {}

(***************************************************************************)
(* The api command                                                         *)
(***************************************************************************)
ApiEnded == cmd = "apiCmd" /\ pc = "done"

\* C23: one invocation of notion api <method> <path> sends exactly one
\* request, and with the method the user gave, for GET, POST, PATCH and
\* DELETE, with a --body that is JSON and without a --body.
C23_OneRequestWithTheGivenMethod ==
    (/\ ApiEnded
     /\ arg.method.verb \in {Lit.GET, Lit.POST, Lit.PATCH, Lit.DELETE}
     /\ arg.body \in {<<>>, <<"{", "}">>})
    => /\ Len(result.requests) = 1
       /\ result.requests[1].method = arg.method.verb

\* What holds of every invocation: one request, or two for PATCH with a
\* body; the method given when the method is POST, or GET or DELETE
\* without a body.
C23_Sanity ==
    (/\ ApiEnded
     /\ arg.body \in {<<>>, <<"{", "}">>})
    => /\ Len(result.requests) \in {1, 2}
       /\ Len(result.requests) = 2 <=> (arg.method.verb = Lit.PATCH
                                        /\ (arg.body # <<>> \/ arg.stdin.data # <<>>))
       /\ (\/ arg.method.verb = Lit.POST
           \/ arg.method.verb \in {Lit.GET, Lit.DELETE} /\ arg.body = <<>>)
          => (Len(result.requests) = 1 /\ result.requests[1].method = arg.method.verb)

(***************************************************************************)
(* The credential file                                                     *)
(***************************************************************************)
InSession == cmd = "session"
TokenOf(file) == StringOf(Get(file.data, Lit.token))

\* C24: across a session the credential file changes only in a login or a
\* logout.  A login writes it only after GetMe accepted the token it
\* writes, and a login whose validation fails leaves the file as it was; a
\* logout that writes leaves a record with an empty token, and a logout
\* that ends without error has written; no other command writes.
C24_Step ==
    InSession =>
        LET ran == result'.last
        IN  /\ result'.file # result.file =>
                \/ /\ ran.command = "authLoginCmd"
                   /\ ran.requests = <<"GetMe">> /\ ran.err = ErrNone
                   /\ ran.token # <<>> /\ TokenOf(result'.file) = ran.token
                \/ /\ ran.command = "authLogoutCmd"
                   /\ result'.file.data = (Lit.token :> JStr(<<>>))
            /\ (ran.command = "authLogoutCmd" /\ ran.exit = 0) => TokenOf(result'.file) = <<>>
            /\ (ran.command = "authLoginCmd" /\ ran.exit = 0) => TokenOf(result'.file) = ran.token

C24_OnlyLoginAndLogoutWrite == [][C24_Step]_vars

C24_Witness ==
    /\ InSession /\ result.n >= 2
    /\ result.last.command = "authLoginCmd" /\ result.last.requests = <<"GetMe">>
    /\ result.last.err = ErrRequest
    /\ TokenOf(result.file) = <<"t", "1">>

\* C25: after every config.Save that succeeded the credential file grants
\* nothing to group and others, whether Save created it or found it.
C25_SavedFileIsPrivate ==
    (InSession /\ result.last.saved) => result.file.mode \cap Perm0077 = {}

\* What holds: a file that Save created grants nothing to group and
\* others, and a file that Save found keeps the mode it had.
C25_CreatedPrivateFoundUnchanged ==
    (InSession /\ result.last.saved) =>
        /\ result.file.exists
        /\ IF arg.file.exists THEN result.file.mode = arg.file.mode
           ELSE result.file.mode = Perm0600 \ arg.umask

(***************************************************************************)
(* db query --cursor                                                       *)
(***************************************************************************)
Queried == cmd = "dbQueryCmd" /\ pc = "done" /\ result.err = ErrNone
\* The pages of the source whose cursor is the one given.
C26_Hinted == {p \in 1..(Len(arg.source) - 1) : Cursor(p) = arg.cursor}

\* C26: db query --cursor c sends start_cursor = c in the query, so that
\* with the cursor of the hint under page p the user is shown page p + 1.
C26_CursorIsSent ==
    (Queried /\ arg.cursor # <<>>) =>
        /\ Get(result.body, Lit.start_cursor) = JStr(arg.cursor)
        /\ \A p \in C26_Hinted :
              result.shown = ListOf(Get(arg.source[p + 1], Lit.results))

\* What holds: the query never carries a start_cursor and the first page
\* is shown whatever the cursor.
C26_CursorIsIgnored ==
    Queried =>
        /\ Lit.start_cursor \notin DOMAIN result.body
        /\ result.shown = ListOf(Get(arg.source[1], Lit.results))

(***************************************************************************)
(* parseFilter on values with operator characters                          *)
(***************************************************************************)
C27_Case ==
    /\ Parsed
    /\ arg.lhs \in DOMAIN arg.dbProps
    /\ NoOperatorChar(arg.lhs)
    /\ arg.op = <<"=">>

\* C27: for every name P of the schema without operator characters and
\* every value V, operator characters in V or not, parseFilter("P=V")
\* yields a condition on property P with the raw value trim(V).
C27_EqualsWithAnyValue ==
    C27_Case =>
        /\ result.err = ErrNone
        /\ result.propName = arg.lhs
        /\ IsTrimOf(result.value, arg.rhs)
        /\ Val(result.filter[Lit.property]) = arg.lhs

\* What holds: the same for the names that neither start nor end with
\* whitespace and the values in which none of >=, <=, !=, ~=, > and <
\* occurs.
C27_EqualsWithPlainValue ==
    (/\ C27_Case
     /\ IsTrimOf(arg.lhs, arg.lhs)
     /\ \A c \in {"!", "~", "<", ">"} : \A i \in 1..Len(arg.rhs) : arg.rhs[i] # c)
    => /\ result.err = ErrNone
       /\ result.propName = arg.lhs
       /\ IsTrimOf(result.value, arg.rhs)
       /\ Val(result.filter[Lit.property]) = arg.lhs

(***************************************************************************)
(* Pagination over a remote that hands out no cursor                       *)
(***************************************************************************)
\* C28: a pagination loop never asks for a page it has fetched: after the
\* first fetch no fetch carries the empty cursor and no cursor is sent
\* twice; when a page has more and no cursor the loop stops.
C28_NeverFromTheStartAgain ==
    (Paginating /\ pc # "start") =>
        /\ \A k \in 2..Len(result.requests) : result.requests[k] # <<>>
        /\ \A j, k \in 1..Len(result.requests) :
              result.requests[j] = result.requests[k] => j = k
        /\ (pc = "loop" /\ arg.all /\ Len(result.requests) >= 1) => result.currentCursor # <<>>

\* What holds: the same over the sources whose pages with more hand out a
\* cursor.
C28_NeverFromTheStartAgainWithCursors ==
    (Paginating /\ pc # "start" /\ arg.remote.source \in Sources) =>
        /\ \A k \in 2..Len(result.requests) : result.requests[k] # <<>>
        /\ \A j, k \in 1..Len(result.requests) :
              result.requests[j] = result.requests[k] => j = k

(***************************************************************************)
(* page link and page unlink                                               *)
(***************************************************************************)
Project == <<"P", "r", "o", "j", "e", "c", "t">>
\* The relation list with the identifiers ids, as it goes over the wire.
RelationList(ids) == JMapList([k \in 1..Len(ids) |-> (Lit.id :> JStr(ids[k]))])
\* ids without the entries equal to t, in order.
RECURSIVE Removed(_, _)
Removed(ids, t) ==
    IF ids = <<>> THEN <<>>
    ELSE (IF Head(ids) # t THEN <<Head(ids)>> ELSE <<>>) \o Removed(Tail(ids), t)

C30_Linked ==
    cmd = "pageLink" /\ pc \in {"linked", "done"} /\ arg.propName = Project
    /\ result.link.patched
C30_Unlinked ==
    cmd = "pageUnlink" /\ pc = "done" /\ arg.propName = Project /\ result.unlink.patched
C30_LinkedThenUnlinked == C30_Linked /\ pc = "done" /\ result.unlink.patched

\* C30: page link sends the current list R followed by the target t; page
\* unlink sends R without the entries equal to t, the others in order;
\* page unlink of t after page link of t sends R, so the list is R again.
C30_LinkUnlink ==
    /\ C30_Linked => result.link.sent = RelationList(arg.R \o <<arg.t>>)
    /\ C30_Unlinked => result.unlink.sent = RelationList(Removed(arg.R, arg.t))
    /\ C30_LinkedThenUnlinked => result.unlink.sent = RelationList(arg.R)

\* What holds: the link is as claimed; the unlink sends null in place of the
\* empty list; the link followed by the unlink gives R back when R is not
\* empty and does not hold t.
C30_UnlinkLast ==
    C30_Unlinked /\ arg.R = <<arg.t>> /\ result.unlink.sent = JNil
C30_LinkHeld ==
    C30_LinkedThenUnlinked /\ Len(arg.R) = 2 /\ arg.R[1] = arg.t
    /\ result.unlink.sent = RelationList(Tail(arg.R))

C30_LinkUnlinkAsBuilt ==
    /\ C30_Linked => result.link.sent = RelationList(arg.R \o <<arg.t>>)
    /\ C30_Unlinked =>
          result.unlink.sent = IF Removed(arg.R, arg.t) = <<>> THEN JNil
                               ELSE RelationList(Removed(arg.R, arg.t))
    /\ (C30_LinkedThenUnlinked /\ arg.R # <<>> /\ \A k \in 1..Len(arg.R) : arg.R[k] # arg.t)
          => result.unlink.sent = RelationList(arg.R)

====
